---- MODULE Spec2Model ----
(***************************************************************************)
(* A model of the PanWatch recommendation core and price-alert engine:     *)
(*   - src/core/entry_candidates.py  candidate snapshot refresh, outcome   *)
(*                                   evaluation                            *)
(*   - src/core/strategy_engine.py   signal refresh, portfolio             *)
(*                                   constraints, outcome evaluation,      *)
(*                                   weight rebalancing                    *)
(*   - src/core/price_alert_engine.py, src/web/api/price_alerts.py         *)
(*                                   alert gating, scan, user toggles      *)
(* Each subsystem has its own specification over its own variables; the    *)
(* variables of the other subsystems stay at their initial value.          *)
(*                                                                         *)
(* Numbers: Python floats are modelled by integers.  Scores are whole      *)
(* points, weights are in units of 1/10000 (the code rounds weights to 4   *)
(* decimals), percentages are whole percents.                              *)
(***************************************************************************)
EXTENDS Integers, Sequences, FiniteSets, TLC


VARIABLES
    \* ---- portfolio constraints (a pure function of the signal rows) ----
    pcRows,      \* the StrategySignalRun rows handed to _apply_portfolio_constraints
    pcInput,     \* the rows as they were before the call
    pcStats,     \* the dict returned by the call
    pcDone       \* whether the call has run

pcVars == <<pcRows, pcInput, pcStats, pcDone>>

VARIABLES
    ecRows,      \* the EntryCandidate table, a set of rows
    ecReturned,  \* per snapshot date: has a refresh returned normally, and the
                 \* rows the latest such call reported
    ecCalls      \* refresh_entry_candidates requests made so far

ecVars == <<ecRows, ecReturned, ecCalls>>

VARIABLES
    swRows,      \* the StrategyWeight table (regime "default")
    swHistory,   \* the StrategyWeightHistory table, in insertion order
    swLast       \* the arguments and statistics of the latest rebalance run

swVars == <<swRows, swHistory, swLast>>

VARIABLES
    sgRows,      \* the StrategySignalRun table, a set of rows
    sgStats,     \* constraint_stats of the latest refresh
    sgCalls      \* refresh_strategy_signals calls made so far

sgVars == <<sgRows, sgStats, sgCalls>>

VARIABLES
    ecoRows,     \* the EntryCandidateOutcome table, a set of rows
    soRows,      \* the StrategyOutcome table, a set of rows
    ocToday,     \* date.today(), a day number
    ocRun        \* per evaluator thread: what it is running and the rows it has
                 \* added to its session but not committed

ocVars == <<ecoRows, soRows, ocToday, ocRun>>

VARIABLES
    alRules,     \* the PriceAlertRule table: rule id -> row
    alHits,      \* the PriceAlertHit table, a set of rows
    alNotified,  \* the notifications handed to the notifier
    alClock,     \* the wall clock, in ticks
    alCount,     \* scans started so far
    alScan       \* per scan_once call in progress: its session and its report

alVars == <<alRules, alHits, alNotified, alClock, alCount, alScan>>

VARIABLES
    jbFlag,      \* per scheduled job: the reentrancy flag of its coroutine
    jbTick       \* per scheduled job: its ticks, in firing order

jbVars == <<jbFlag, jbTick>>

\* the recommendation core and the alert engine
coreVars == <<pcVars, ecVars, swVars, sgVars, ocVars, alVars>>

VARIABLES
    crField,     \* the day_of_week field of a cron expression "0 9 * * <field>"
    crNormalized,\* what normalize_cron_day_of_week_field has returned for it
    crPreview,   \* the weekdays of the runs preview_schedule has reported
    crFires,     \* the weekdays on which the job registered with it fires
    crCalled     \* which of the three have been called

crVars == <<crField, crNormalized, crPreview, crFires, crCalled>>

VARIABLES
    rfState,     \* recommendations.py: _refresh_state (running, last_error)
    rfReq        \* the requests to the refresh endpoints, one thread each

rfVars == <<rfState, rfReq>>

VARIABLES
    clInput,     \* one source row with its base price and outcome price
    clCandidate, \* what evaluate_entry_candidate_outcomes stores for it
    clSignal     \* what evaluate_strategy_outcomes stores for it

clVars == <<clInput, clCandidate, clSignal>>

\* the schedulers, the web service and the single-row evaluations
svcVars == <<jbVars, crVars, rfVars, clVars>>

notJb == <<coreVars, crVars, rfVars, clVars>>
notCr == <<coreVars, jbVars, rfVars, clVars>>
notRf == <<coreVars, jbVars, crVars, clVars>>
notCl == <<coreVars, jbVars, crVars, rfVars>>

vars == <<coreVars, svcVars>>

\* ------------------------------------------------------------------------
\* Small helpers
\* ------------------------------------------------------------------------
Min(a, b) == IF a <= b THEN a ELSE b
Max(a, b) == IF a >= b THEN a ELSE b

\* Python's round(num/den) for num >= 0, den > 0: round half to even.
RoundHalfEven(num, den) ==
    LET q == num \div den
        r == num % den
    IN  IF 2 * r > den \/ (2 * r = den /\ q % 2 = 1) THEN q + 1 ELSE q

\* sorted(seq, key=key, reverse=True): stable, descending.  seq is a sequence
\* of row indices, key a function from row index to the sort key.  An element
\* lands after every element with a larger key and after the earlier elements
\* with an equal key.
SortDesc(s, key) ==
    LET n == Len(s)
        Before(i) == {j \in 1..n : key[s[j]] > key[s[i]] \/ (key[s[j]] = key[s[i]] /\ j < i)}
        at == [i \in 1..n |-> 1 + Cardinality(Before(i))]
    IN  [p \in 1..n |-> s[CHOOSE i \in 1..n : at[i] = p]]

Range(s) == {s[i] : i \in DOMAIN s}

\* s[:n]
Prefix(s, n) == SubSeq(s, 1, Min(n, Len(s)))

\* ------------------------------------------------------------------------
\* Portfolio constraints: strategy_engine.py
\* ------------------------------------------------------------------------
RawMarkets == {"CN", "hk", "US", "SG", ""}

\* (r.stock_market or "CN").strip().upper() or "CN"
NormMarket(raw) ==
    CASE raw = "" -> "CN"
      [] raw = "hk" -> "HK"
      [] OTHER -> raw

\* MAX_UNHELD_ACTIVE_BY_MARKET.get(market, 20)
MAX_UNHELD_ACTIVE_BY_MARKET(market) ==
    CASE market = "CN" -> 30
      [] market = "HK" -> 20
      [] market = "US" -> 20
      [] OTHER -> 20

\* MAX_HIGH_RISK_RATIO_BY_MARKET.get(market, 0.32), in percent
MAX_HIGH_RISK_RATIO_BY_MARKET(market) ==
    CASE market = "CN" -> 35
      [] market = "HK" -> 32
      [] market = "US" -> 30
      [] OTHER -> 32

\* MAX_SINGLE_STRATEGY_SHARE = 0.42, in percent
MAX_SINGLE_STRATEGY_SHARE == 42

DemotedCapHeld == 69
DemotedCapUnheld == 65
MaxConstraintReasons == 6

\* _demote_signal(row, reason=...)
DemoteSignal(row, reason) ==
    [row EXCEPT
        !.status = "inactive",
        !.action = "watch",
        !.rank_score = Min(row.rank_score,
                           IF row.is_holding_snapshot THEN DemotedCapHeld ELSE DemotedCapUnheld),
        !.reasons = Prefix(Append(row.reasons, reason), MaxConstraintReasons),
        !.constrained = TRUE]

\* The element of a one-element set.  Only({F(v) : v \in {e}}) evaluates e
\* once and names its value v.
Only(S) == CHOOSE x \in S : TRUE

\* for row in ...: _demote_signal(row, reason=reason), for the rows at idxs
DemoteAll(rows, idxs, reason) ==
    Only({[i \in DOMAIN rows |-> IF i \in d THEN DemoteSignal(rows[i], reason) ELSE rows[i]] :
          d \in {idxs}})

Indices(rows) == [i \in 1..Len(rows) |-> i]

RankKey(rows) == [i \in DOMAIN rows |-> rows[i].rank_score]

\* The eligibility test of _apply_portfolio_constraints (lines 722-728).
IsActiveUnheld(r) ==
    /\ r.status = "active"
    /\ ~r.is_holding_snapshot
    /\ r.action \in {"buy", "add"}

\* active_unheld of one market, sorted by rank_score descending
ActiveUnheld(rows, market) ==
    LET Test(i) == NormMarket(rows[i].stock_market) = market /\ IsActiveUnheld(rows[i])
    IN  SortDesc(SelectSeq(Indices(rows), Test), RankKey(rows))

\* Off by one: also demotes the row at position n.
BeyondOffByOne(s, n) == {s[j] : j \in {k \in DOMAIN s : k >= n}}

\* Elements of the index sequence s at positions > n  (enumerate idx >= n).
Beyond(s, n) == {s[j] : j \in {k \in DOMAIN s : k > n}}

\* [x for x in seq if x.status == "active"]
StillActive(rows, seq) ==
    LET Act(i) == rows[i].status = "active"
    IN  SelectSeq(seq, Act)

\* Lines 729-743: keep the top max_unheld, demote the rest.
CapUnheld(rows, market) ==
    LET max_unheld == MAX_UNHELD_ACTIVE_BY_MARKET(market)
        Step(active_unheld) ==
            Only({[rows |-> rows1,
                   remaining |-> StillActive(rows1, Prefix(active_unheld, max_unheld)),
                   cap_unheld |-> Cardinality(Beyond(active_unheld, max_unheld))] :
                  rows1 \in {DemoteAll(rows, Beyond(active_unheld, max_unheld),
                                       "cap_unheld")}})
    IN  Only({Step(active_unheld) : active_unheld \in {ActiveUnheld(rows, market)}})

\* Lines 747-756: cap the high-risk rows among the remaining ones.
CapHighRisk(rows, remaining, market) ==
    LET max_ratio == MAX_HIGH_RISK_RATIO_BY_MARKET(market)
        allow_high == Max(1, RoundHalfEven(Len(remaining) * max_ratio, 100))
        High(i) == rows[i].risk_level = "high"
        Step(high_rows) ==
            Only({[rows |-> rows2,
                   final_rows |-> StillActive(rows2, remaining),
                   cap_high_risk |-> Cardinality(Beyond(high_rows, allow_high))] :
                  rows2 \in {DemoteAll(rows, Beyond(high_rows, allow_high),
                                       "cap_high_risk")}})
    IN  Only({Step(high_rows) :
              high_rows \in {SortDesc(SelectSeq(remaining, High), RankKey(rows))}})

\* Leaves every strategy's rows as they are.
NoCapStrategy(rows, final_rows) == [rows |-> rows, cap_strategy_concentration |-> 0]

\* Lines 758-776: cap each strategy's rows among the final ones.
CapStrategy(rows, final_rows) ==
    LET cap_per_strategy ==
            Max(1, RoundHalfEven(Len(final_rows) * MAX_SINGLE_STRATEGY_SHARE, 100))
        codes == {rows[i].strategy_code : i \in Range(final_rows)}
        SRows(code) ==
            LET OfCode(i) == rows[i].strategy_code = code
            IN  SortDesc(SelectSeq(final_rows, OfCode), RankKey(rows))
        Step(d3) ==
            [rows |-> DemoteAll(rows, d3, "cap_strategy_concentration"),
             cap_strategy_concentration |-> Cardinality(d3)]
    IN  Only({Step(d3) :
              d3 \in {UNION {Beyond(SRows(code), cap_per_strategy) : code \in codes}}})

\* One market's pass (the body of the loop at line 721): the rows after the
\* three caps and the number of demotions of each kind.  The second and third
\* cap are skipped when nothing remains ("continue").
ConstrainMarket(rows, market) ==
    LET After2(s1, s2) ==
            IF s2.final_rows = <<>>
            THEN [rows |-> s2.rows, cap_unheld |-> s1.cap_unheld,
                  cap_high_risk |-> s2.cap_high_risk, cap_strategy_concentration |-> 0]
            ELSE Only({[rows |-> s3.rows, cap_unheld |-> s1.cap_unheld,
                        cap_high_risk |-> s2.cap_high_risk,
                        cap_strategy_concentration |-> s3.cap_strategy_concentration] :
                       s3 \in {CapStrategy(s2.rows, s2.final_rows)}})
        After1(s1) ==
            IF s1.remaining = <<>>
            THEN [rows |-> s1.rows, cap_unheld |-> s1.cap_unheld,
                  cap_high_risk |-> 0, cap_strategy_concentration |-> 0]
            ELSE Only({After2(s1, s2) :
                       s2 \in {CapHighRisk(s1.rows, s1.remaining, market)}})
    IN  Only({After1(s1) : s1 \in {CapUnheld(rows, market)}})

\* The loop over by_market.  A market's pass reads and writes only the rows of
\* that market, so the order in which the markets are visited does not matter.
RECURSIVE ConstrainMarkets(_, _)
ConstrainMarkets(acc, markets) ==
    IF markets = {} THEN acc
    ELSE LET m == CHOOSE x \in markets : TRUE
             Merge(one) ==
                 [rows |-> one.rows,
                  cap_unheld |-> acc.cap_unheld + one.cap_unheld,
                  cap_high_risk |-> acc.cap_high_risk + one.cap_high_risk,
                  cap_strategy_concentration |->
                      acc.cap_strategy_concentration + one.cap_strategy_concentration]
         IN  Only({ConstrainMarkets(merged, markets \ {m}) :
                   merged \in {Only({Merge(one) : one \in {ConstrainMarket(acc.rows, m)}})}})

\* _apply_portfolio_constraints(rows=rows)
ApplyPortfolioConstraints(rows) ==
    LET Result(res) ==
            [rows |-> res.rows,
             demoted |-> res.cap_unheld + res.cap_high_risk + res.cap_strategy_concentration,
             by_reason |-> [cap_unheld |-> res.cap_unheld,
                            cap_high_risk |-> res.cap_high_risk,
                            cap_strategy_concentration |-> res.cap_strategy_concentration]]
    IN  Only({Result(res) :
              res \in {ConstrainMarkets(
                           [rows |-> rows, cap_unheld |-> 0, cap_high_risk |-> 0,
                            cap_strategy_concentration |-> 0],
                           {NormMarket(rows[i].stock_market) : i \in DOMAIN rows})}})

\* ------------------------------------------------------------------------
\* Inputs of the portfolio-constraint check.  A call gets the rows touched by
\* one signal refresh: a block of eligible rows of one market, whose size is
\* around that market's cap, optionally followed by rows that are not eligible
\* and by a few rows of another market.
\* ------------------------------------------------------------------------
PcSlack == 2              \* eligible rows up to cap + PcSlack
PcSmall == 3              \* also blocks of 0..PcSmall eligible rows
PcCodes == <<"trend_follow", "macd_golden", "market_scan">>
PcRankPatterns == {"asc", "desc", "flat", "zig"}

PcRank(pat, i) ==
    CASE pat = "asc" -> 40 + i
      [] pat = "desc" -> 100 - i
      [] pat = "flat" -> 70
      [] OTHER -> 50 + ((i * 7) % 11)

PcEligibleRow(market, i, riskMod, codeMod, pat) ==
    [stock_market |-> market,
     status |-> "active",
     is_holding_snapshot |-> FALSE,
     action |-> IF i % 2 = 1 THEN "buy" ELSE "add",
     risk_level |-> IF riskMod > 0 /\ i % riskMod = 0 THEN "high" ELSE "medium",
     strategy_code |-> PcCodes[(i % codeMod) + 1],
     rank_score |-> PcRank(pat, i),
     reasons |-> <<>>,
     constrained |-> FALSE]

\* Rows the eligibility test must leave alone: held, inactive, not buy/add.
PcOtherRows(market) ==
    << [stock_market |-> market, status |-> "active", is_holding_snapshot |-> TRUE, action |-> "add",
        risk_level |-> "high", strategy_code |-> "trend_follow", rank_score |-> 99,
        reasons |-> <<>>, constrained |-> FALSE],
       [stock_market |-> market, status |-> "inactive", is_holding_snapshot |-> FALSE, action |-> "buy",
        risk_level |-> "medium", strategy_code |-> "trend_follow", rank_score |-> 98,
        reasons |-> <<>>, constrained |-> FALSE],
       [stock_market |-> market, status |-> "active", is_holding_snapshot |-> FALSE, action |-> "watch",
        risk_level |-> "medium", strategy_code |-> "macd_golden", rank_score |-> 97,
        reasons |-> <<>>, constrained |-> FALSE] >>

PcOtherMarket(market) == IF NormMarket(market) = "US" THEN "CN" ELSE "US"

PcBlock(market, n, riskMod, codeMod, pat) ==
    [i \in 1..n |-> PcEligibleRow(market, i, riskMod, codeMod, pat)]

PcSizes(market) ==
    (0..PcSmall) \cup
    {n \in 0..(MAX_UNHELD_ACTIVE_BY_MARKET(NormMarket(market)) + PcSlack) :
        n >= MAX_UNHELD_ACTIVE_BY_MARKET(NormMarket(market)) - 1}

PcInputs ==
    {PcBlock(market, n, riskMod, codeMod, pat)
        \o (IF others THEN PcOtherRows(market) ELSE <<>>)
        \o (IF second THEN PcBlock(PcOtherMarket(market), 2, 1, 1, "flat") ELSE <<>>) :
     market \in RawMarkets, n \in PcSizes("CN") \cup PcSizes("US"),
     riskMod \in 0..3, codeMod \in 1..3, pat \in PcRankPatterns,
     others \in BOOLEAN, second \in BOOLEAN}

PcIdle ==
    /\ pcRows = <<>>
    /\ pcInput = <<>>
    /\ pcStats = [demoted |-> 0]
    /\ pcDone = FALSE

PcInit ==
    /\ pcInput \in PcInputs
    /\ pcRows = pcInput
    /\ pcStats = [demoted |-> 0]
    /\ pcDone = FALSE

\* constraint_stats = _apply_portfolio_constraints(rows=touched_rows)
PcApply ==
    /\ ~pcDone
    /\ \E res \in {ApplyPortfolioConstraints(pcRows)} :
           /\ pcRows' = res.rows
           /\ pcStats' = [demoted |-> res.demoted, by_reason |-> res.by_reason]
    /\ pcDone' = TRUE
    /\ UNCHANGED <<pcInput, ecVars, swVars, sgVars, ocVars, alVars, svcVars>>

\* ------------------------------------------------------------------------
\* Claims about the portfolio constraints
\* ------------------------------------------------------------------------
PcMarkets == {NormMarket(m) : m \in RawMarkets}

\* The eligible signals of a market, as submitted.
PcEligible(m) ==
    {i \in DOMAIN pcInput : NormMarket(pcInput[i].stock_market) = m /\ IsActiveUnheld(pcInput[i])}

PcStillActive(m) == {i \in PcEligible(m) : pcRows[i].status = "active"}

PcIsDemoted(r) == r.constrained /\ r.status = "inactive" /\ r.action = "watch"

PcDemotedFor(m, reason) ==
    {i \in PcEligible(m) : pcRows[i].reasons # <<>> /\ pcRows[i].reasons[1] = reason}

\* C5 as stated: in a market with more than N eligible signals exactly N of
\* them remain active after the call, and all the others are constrained,
\* inactive and "watch".
C5_ExactlyN ==
    pcDone =>
        \A m \in PcMarkets :
            Cardinality(PcEligible(m)) > MAX_UNHELD_ACTIVE_BY_MARKET(m) =>
                /\ Cardinality(PcStillActive(m)) = MAX_UNHELD_ACTIVE_BY_MARKET(m)
                /\ \A i \in PcEligible(m) \ PcStillActive(m) : PcIsDemoted(pcRows[i])

\* C5 amended: in a market with more than N eligible signals exactly N
\* survive the top-N cap (all but N are demoted for "cap_unheld"), the
\* high-risk and single-strategy caps may demote further signals among those
\* N, so at most N remain active (N minus the demotions of the two later
\* caps), and every eligible signal that does not remain active is
\* constrained, inactive and "watch".
C5_AtMostN ==
    pcDone =>
        \A m \in PcMarkets :
            LET N == MAX_UNHELD_ACTIVE_BY_MARKET(m)
                later == PcDemotedFor(m, "cap_high_risk")
                             \cup PcDemotedFor(m, "cap_strategy_concentration")
            IN  Cardinality(PcEligible(m)) > N =>
                    /\ Cardinality(PcDemotedFor(m, "cap_unheld"))
                           = Cardinality(PcEligible(m)) - N
                    /\ Cardinality(PcStillActive(m)) = N - Cardinality(later)
                    /\ Cardinality(PcStillActive(m)) <= N
                    /\ \A i \in PcEligible(m) \ PcStillActive(m) : PcIsDemoted(pcRows[i])
                    /\ \A i \in PcStillActive(m) :
                           ~pcRows[i].constrained /\ pcRows[i].action \in {"buy", "add"}

\* A market over its cap in which the later caps demoted nothing: exactly N
\* remain active.
C5_Witness ==
    /\ pcDone
    /\ \E m \in PcMarkets :
           /\ Cardinality(PcEligible(m)) > MAX_UNHELD_ACTIVE_BY_MARKET(m)
           /\ Cardinality(PcStillActive(m)) = MAX_UNHELD_ACTIVE_BY_MARKET(m)

\* The still-active signals of market m with strategy code.
PcActiveOf(m, code) == {i \in PcStillActive(m) : pcRows[i].strategy_code = code}

PcCodesOf(m) == {pcInput[i].strategy_code : i \in PcEligible(m)}

\* final_rows of market m: the eligible signals the first two caps left.
PcFinal(m) == (PcEligible(m) \ PcDemotedFor(m, "cap_unheld")) \ PcDemotedFor(m, "cap_high_risk")

\* C22 as stated: after the call, within each market no strategy_code has
\* more than 42% of the signals that are still active, unheld and buy/add.
C22_ShareOfSurvivors ==
    pcDone =>
        \A m \in PcMarkets : \A code \in PcCodesOf(m) :
            Cardinality(PcActiveOf(m, code)) * 100
                <= MAX_SINGLE_STRATEGY_SHARE * Cardinality(PcStillActive(m))

\* C22 amended: within each market every strategy_code keeps at most
\* max(1, round(0.42 * n)) active signals, n being the number of signals
\* that the unheld cap and the high-risk cap left active; the signals
\* demoted for it are those of the strategy with the lowest rank_score.
C22_CapPerStrategy ==
    pcDone =>
        \A m \in PcMarkets :
            LET cap == Max(1, RoundHalfEven(Cardinality(PcFinal(m)) * MAX_SINGLE_STRATEGY_SHARE, 100))
            IN  \A code \in PcCodesOf(m) :
                    /\ Cardinality(PcActiveOf(m, code)) <= cap
                    /\ Cardinality({i \in PcFinal(m) : pcInput[i].strategy_code = code}) >= cap
                           => Cardinality(PcActiveOf(m, code)) = cap
                    /\ \A i \in PcDemotedFor(m, "cap_strategy_concentration") :
                           \A j \in PcActiveOf(m, pcInput[i].strategy_code) :
                               pcInput[j].rank_score >= pcInput[i].rank_score

\* Signals were demoted for concentration, and the strategy still has more
\* than 42% of the market's survivors.
C22_Witness ==
    /\ pcDone
    /\ \E m \in PcMarkets :
           /\ PcDemotedFor(m, "cap_strategy_concentration") # {}
           /\ \E code \in PcCodesOf(m) :
                  /\ Cardinality(PcActiveOf(m, code)) > 1
                  /\ Cardinality(PcActiveOf(m, code)) * 100
                         > MAX_SINGLE_STRATEGY_SHARE * Cardinality(PcStillActive(m))

\* ------------------------------------------------------------------------
\* Candidate snapshot refresh: entry_candidates.py
\* ------------------------------------------------------------------------
\* Calendar days are numbered; "%Y-%m-%d" strings compare like day numbers.
SnapshotDates == {1, 2}
MarketCodes == {"CN", "HK", "US"}

\* _to_market(value): MarketCode((value or "CN").strip().upper()), CN when
\* that is not a market code
ToMarket(value) == IF NormMarket(value) \in MarketCodes THEN NormMarket(value) ELSE "CN"

\* (s.stock_symbol or "").strip()
StripSymbol(raw) ==
    CASE raw = " A" -> "A"
      [] raw = "B " -> "B"
      [] OTHER -> raw

\* (raw or default).strip().lower()
LowerAction(raw, default) ==
    CASE raw = "" -> default
      [] raw = "ADD" -> "add"
      [] raw = " Buy" -> "buy"
      [] OTHER -> raw

\* The keys of ACTION_BASE_SCORE and ACTION_BASE_SCORE.get(action, 45.0)
ACTION_BASE_SCORE_KEYS ==
    {"buy", "add", "hold", "watch", "alert", "reduce", "sell", "avoid"}

ACTION_BASE_SCORE(action) ==
    CASE action = "buy" -> 78
      [] action = "add" -> 72
      [] action = "hold" -> 58
      [] action = "watch" -> 52
      [] action = "alert" -> 45
      [] action = "reduce" -> 30
      [] action = "sell" -> 20
      [] action = "avoid" -> 15
      [] OTHER -> 45

\* The kline summaries a key can come with:
\*   bull_macd    trend 多头排列, MACD 金叉
\*   bull_volume  trend 多头排列, volume_ratio 2.0
\*   flat         nothing notable
\*   bear         trend 空头排列, volume_ratio 0.7
KlineCases == {"bull_macd", "bull_volume", "flat", "bear"}

KlineTrendUp(k) == k \in {"bull_macd", "bull_volume"}

\* _derive_market_scan_decision(quote, kline): points, then the action
DecisionPoints(k) ==
    (IF KlineTrendUp(k) THEN 2 ELSE IF k = "bear" THEN -2 ELSE 0)
    + (IF k = "bull_macd" THEN 2 ELSE 0)
    + (IF k = "bull_volume" THEN 1 ELSE IF k = "bear" THEN -1 ELSE 0)

DecisionTags(k) ==
    (IF KlineTrendUp(k) THEN <<"trend_follow">> ELSE <<>>)
    \o (IF k = "bull_macd" THEN <<"macd_golden">> ELSE <<>>)
    \o (IF k = "bull_volume" THEN <<"volume_breakout">> ELSE <<>>)

DeriveMarketScanDecision(k) ==
    [action |-> IF DecisionPoints(k) >= 4 THEN "buy"
                ELSE IF DecisionPoints(k) >= 3 THEN "add"
                ELSE IF DecisionPoints(k) <= -3 THEN "avoid"
                ELSE "watch",
     strategy_tags |-> DecisionTags(k)]

\* _clamp(value, low, high)
Clamp(value, low, high) == Max(low, Min(high, value))

\* _score_suggestion: base score, trend, MACD and volume terms
ScoreSuggestion(action, k) ==
    Clamp(ACTION_BASE_SCORE(action)
          + (IF KlineTrendUp(k) THEN 8 ELSE IF k = "bear" THEN -8 ELSE 0)
          + (IF k = "bull_macd" THEN 5 ELSE 0)
          + (IF k = "bull_volume" THEN 4 ELSE 0),
          0, 100)

\* _score_market_scan_candidate: base score, tag and trend terms
ScoreMarketScanCandidate(action, k, strategy_tags) ==
    Clamp(ACTION_BASE_SCORE(action)
          + Min(8, Len(strategy_tags) * 2)
          + (IF KlineTrendUp(k) THEN 5 ELSE IF k = "bear" THEN -6 ELSE 0),
          0, 100)

\* _build_plan(action, quote, kline) for a quote price (0: no price) and a
\* kline without support and resistance: support is 0.95 and resistance 1.06
\* of the price.  A price that is not set is 0.
BuildPlan(action, price) ==
    IF price = 0
    THEN [entry_low |-> 0, entry_high |-> 0, stop_loss |-> 0, target_price |-> 0,
          invalidation |-> FALSE]
    ELSE IF action \in {"buy", "add"}
    THEN [entry_low |-> (price * 99) \div 100, entry_high |-> (price * 101) \div 100,
          stop_loss |-> (price * 95 * 985) \div 100000,
          target_price |-> (price * 106 * 99) \div 10000,
          invalidation |-> TRUE]
    ELSE IF action \in {"hold", "watch"}
    THEN [entry_low |-> 0, entry_high |-> 0,
          stop_loss |-> (price * 95 * 98) \div 10000,
          target_price |-> (price * 106 * 99) \div 10000,
          invalidation |-> TRUE]
    ELSE [entry_low |-> 0, entry_high |-> 0, stop_loss |-> 0, target_price |-> 0,
          invalidation |-> TRUE]

\* _plan_quality(plan)
PlanQuality(plan) ==
    (IF plan.entry_low # 0 \/ plan.entry_high # 0 THEN 30 ELSE 0)
    + (IF plan.stop_loss # 0 THEN 30 ELSE 0)
    + (IF plan.target_price # 0 THEN 30 ELSE 0)
    + (IF plan.invalidation THEN 10 ELSE 0)

\* list(dict.fromkeys(seq))
RECURSIVE Dedupe(_)
Dedupe(seq) ==
    IF seq = <<>> THEN <<>>
    ELSE LET front == Dedupe(SubSeq(seq, 1, Len(seq) - 1))
             last == seq[Len(seq)]
         IN  IF last \in Range(front) THEN front ELSE Append(front, last)

\* Leaves the action as it is.
KeepAction(action, is_holding) == action

\* Lines 1453-1458: buy becomes add for a held stock, add becomes buy for a
\* stock that is not held.
NormalizeHolding(action, is_holding) ==
    IF is_holding /\ action = "buy" THEN "add"
    ELSE IF ~is_holding /\ action = "add" THEN "buy"
    ELSE action

\* _load_holding_keys(): one key per Stock joined with Position
HoldingKeys(holdings) ==
    {<<NormMarket(h.market), StripSymbol(h.symbol)>> : h \in {x \in holdings : x.symbol # ""}}

\* Lines 1268-1310: one suggestion merged into input_map (a sequence of
\* entries in insertion order).  A suggestion without a symbol is skipped;
\* a key already present is replaced in place and tagged "mixed".
MergeSuggestion(input_map, market_scan_keys, s) ==
    LET key == <<ToMarket(s.stock_market), StripSymbol(s.stock_symbol)>>
        present == \E i \in DOMAIN input_map : input_map[i].key = key
        seed == [key |-> key,
                 has_suggestion |-> TRUE,
                 action |-> LowerAction(s.action, "watch"),
                 candidate_source |->
                     IF key \in market_scan_keys \/ present THEN "mixed" ELSE "watchlist",
                 strategy_tags_seed |-> <<"watchlist_agent">>,
                 kline |-> s.kline,
                 price |-> s.price]
    IN  IF StripSymbol(s.stock_symbol) = "" THEN input_map
        ELSE IF present
             THEN [i \in DOMAIN input_map |->
                      IF input_map[i].key = key THEN seed ELSE input_map[i]]
             ELSE Append(input_map, seed)

RECURSIVE MergeSuggestions(_, _, _)
MergeSuggestions(input_map, market_scan_keys, suggestions) ==
    IF suggestions = <<>> THEN input_map
    ELSE MergeSuggestions(MergeSuggestion(input_map, market_scan_keys, Head(suggestions)),
                          market_scan_keys, Tail(suggestions))

\* Lines 1267-1310: input_map = dict(market_scan_map), then the suggestions
BuildInputMap(market_scan_map, suggestions) ==
    MergeSuggestions(market_scan_map,
                     {market_scan_map[i].key : i \in DOMAIN market_scan_map},
                     suggestions)

\* Lines 1400-1451: the action before holding normalization, from the agent
\* suggestion, from the seeded action, or derived from the kline.
SourceAction(inp) ==
    IF inp.has_suggestion THEN LowerAction(inp.action, "watch")
    ELSE IF LowerAction(inp.action, "") \in ACTION_BASE_SCORE_KEYS
         THEN LowerAction(inp.action, "")
         ELSE DeriveMarketScanDecision(inp.kline).action

SourceTags(inp) ==
    IF inp.has_suggestion THEN inp.strategy_tags_seed \o DecisionTags(inp.kline)
    ELSE IF LowerAction(inp.action, "") \in ACTION_BASE_SCORE_KEYS
              /\ inp.strategy_tags_seed # <<>>
         THEN inp.strategy_tags_seed
         ELSE DeriveMarketScanDecision(inp.kline).strategy_tags

SourceScore(inp) ==
    IF inp.has_suggestion THEN ScoreSuggestion(SourceAction(inp), inp.kline)
    ELSE ScoreMarketScanCandidate(SourceAction(inp), inp.kline, Dedupe(SourceTags(inp)))

\* Lines 1385-1529: the EntryCandidate row of one input_map entry
BuildCandidate(inp, snapshot, holding_keys, id) ==
    LET is_holding == inp.key \in holding_keys
        action == NormalizeHolding(SourceAction(inp), is_holding)
        plan == BuildPlan(action, inp.price)
        threshold == IF inp.candidate_source \in {"market_scan", "mixed"} THEN 62 ELSE 55
    IN  [id |-> id,
         stock_symbol |-> inp.key[2],
         stock_market |-> inp.key[1],
         snapshot_date |-> snapshot,
         status |-> IF action \in {"buy", "add"} /\ PlanQuality(plan) >= 90
                       /\ SourceScore(inp) >= threshold
                    THEN "active" ELSE "inactive",
         score |-> SourceScore(inp),
         action |-> action,
         candidate_source |-> inp.candidate_source,
         strategy_tags |-> Dedupe(SourceTags(inp)),
         is_holding_snapshot |-> is_holding,
         plan_quality |-> PlanQuality(plan),
         entry_low |-> plan.entry_low,
         entry_high |-> plan.entry_high,
         stop_loss |-> plan.stop_loss,
         target_price |-> plan.target_price,
         quote_price |-> inp.price]

\* The next INTEGER PRIMARY KEY of a table: one more than the largest in it.
NextId(rows) == 1 + (IF rows = {} THEN 0 ELSE CHOOSE m \in {r.id : r \in rows} :
                                                  \A r \in rows : r.id <= m)

\* UniqueConstraint("stock_symbol", "stock_market", "snapshot_date")
CandidateKey(r) == <<r.stock_symbol, r.stock_market, r.snapshot_date>>

CandidateUnique(rows) == \A a, b \in rows : CandidateKey(a) = CandidateKey(b) => a = b

\* A row without its primary key, as a refresh reports it.
Reported(r) == [r EXCEPT !.id = 0]

\* refresh_entry_candidates(snapshot_date=snapshot) on the table rows: whether
\* it raised, the table afterwards, and the rows it reported.  The
\* suggestions, the market-scan map and the holdings are what the loaders
\* return; db_error is an exception raised inside the try block.
EntryRefreshOutcome(rows, snapshot, suggestions, market_scan_map, holdings, db_error) ==
    LET Written(kept, added) ==
            IF db_error \/ ~CandidateUnique(kept \cup added)
            THEN [raised |-> TRUE, rows |-> rows, items |-> {}]
            ELSE [raised |-> FALSE, rows |-> kept \cup added,
                  items |-> {Reported(r) : r \in added}]
        Replace(input_map, kept) ==
            Only({Written(kept, added) :
                  added \in {{BuildCandidate(input_map[i], snapshot, HoldingKeys(holdings),
                                             NextId(kept) + i - 1) : i \in DOMAIN input_map}}})
        Run(input_map) ==
            IF input_map = <<>>
            THEN [raised |-> FALSE, rows |-> rows, items |-> {}]
            ELSE Only({Replace(input_map, kept) :
                       kept \in {{r \in rows : r.snapshot_date # snapshot}}})
    IN  Only({Run(input_map) : input_map \in {BuildInputMap(market_scan_map, suggestions)}})

RefreshEntryCandidates(snapshot, suggestions, market_scan_map, holdings, db_error) ==
    \E out \in {EntryRefreshOutcome(ecRows, snapshot, suggestions, market_scan_map,
                                    holdings, db_error)} :
        /\ ecRows' = out.rows
        /\ ecReturned' = IF out.raised THEN ecReturned
                         ELSE [ecReturned EXCEPT ![snapshot] =
                                  [called |-> TRUE, items |-> out.items]]
        /\ ecCalls' = ecCalls + 1

\* ------------------------------------------------------------------------
\* Strategy catalog and weights: strategy_catalog.py
\* ------------------------------------------------------------------------
\* DEFAULT_STRATEGIES: code, default_weight (in 1/10000), risk_level
StrategyCodes ==
    {"trend_follow", "macd_golden", "volume_breakout", "pullback", "rebound",
     "watchlist_agent", "market_scan"}

DefaultWeight(code) ==
    CASE code = "trend_follow" -> 11500
      [] code = "macd_golden" -> 11000
      [] code = "volume_breakout" -> 11800
      [] code = "pullback" -> 10500
      [] code = "rebound" -> 9500
      [] code = "watchlist_agent" -> 10000
      [] code = "market_scan" -> 10800
      [] OTHER -> 10000

RiskLevel(code) ==
    CASE code \in {"volume_breakout", "rebound"} -> "high"
      [] code = "pullback" -> "low"
      [] OTHER -> "medium"

\* get_effective_weight_map(market, regime="default")[code]: the weight row of
\* that market if there is one, else the catalog default.  A row of market
\* "ALL" only counts for a code the catalog does not have.
EffectiveWeight(code, market) ==
    IF \E r \in swRows : r.strategy_code = code /\ r.market = market
    THEN (CHOOSE r \in swRows : r.strategy_code = code /\ r.market = market).weight
    ELSE DefaultWeight(code)

\* get_strategy_stats: current_weight of a (strategy, market) group,
\* weight_map.get((c, m), weight_map.get((c, "ALL"), default_weight))
CurrentWeight(code, market) ==
    LET Stored(m) == \E r \in swRows : r.strategy_code = code /\ r.market = m
        WeightOf(m) == (CHOOSE r \in swRows : r.strategy_code = code /\ r.market = m).weight
    IN  IF Stored(market) THEN WeightOf(market)
        ELSE IF Stored("ALL") THEN WeightOf("ALL")
        ELSE DefaultWeight(code)

\* ------------------------------------------------------------------------
\* Signal refresh: strategy_engine.py
\* ------------------------------------------------------------------------
\* A strategy code list with the tags only.
TagsOnly(row) == IF row.strategy_tags = <<>> THEN <<"watchlist_agent">> ELSE Dedupe(row.strategy_tags)

\* _strategy_codes_for_candidate(row)
StrategyCodesForCandidate(row) ==
    LET codes == row.strategy_tags
                 \o (IF row.candidate_source \in {"market_scan", "mixed"}
                     THEN <<"market_scan">> ELSE <<>>)
    IN  IF codes = <<>> THEN <<"watchlist_agent">> ELSE Dedupe(codes)

\* _compute_factor_breakdown(...)["weighted_score"]: the candidate's score,
\* less the penalties for a plan that cannot be executed, times the strategy
\* weight, then the caps that keep the score in line with status and action.
WeightedScore(c, weight) ==
    LET buying == c.action \in {"buy", "add"}
        has_entry == c.entry_low # 0 \/ c.entry_high # 0
        raw == c.score - (IF buying /\ ~has_entry THEN 8 ELSE 0)
                       - (IF buying /\ c.plan_quality < 90 THEN 6 ELSE 0)
        final == Clamp(RoundHalfEven(Max(0, raw) * weight, 10000), 0, 100)
        cap1 == IF c.status # "active" THEN Min(final, 69) ELSE final
        cap2 == IF c.action \in {"hold", "watch"}
                THEN Min(cap1, IF c.is_holding_snapshot THEN 78 ELSE 65) ELSE cap1
    IN  IF buying /\ ~has_entry THEN Min(cap2, 66) ELSE cap2

\* Lines 1295-1306: the signal's action, normalized against the candidate's
\* holding flag.
SignalAction(c) ==
    LET action == LowerAction(c.action, "watch")
    IN  IF c.is_holding_snapshot
        THEN (IF action = "buy" THEN "add" ELSE action)
        ELSE (IF action = "add" THEN "buy" ELSE action)

\* UniqueConstraint("snapshot_date", "stock_symbol", "stock_market",
\*                  "strategy_code", "source_candidate_id")
SignalKey(r) ==
    <<r.snapshot_date, r.stock_symbol, r.stock_market, r.strategy_code,
      r.source_candidate_id>>

SignalUnique(rows) == \A a, b \in rows : SignalKey(a) = SignalKey(b) => a = b

\* candidates ordered by score descending
CandidateList(cands) ==
    LET ids == {c.id : c \in cands}
        ById(id) == CHOOSE c \in cands : c.id = id
        RECURSIVE Asc(_)
        Asc(S) == IF S = {} THEN <<>>
                  ELSE LET m == CHOOSE x \in S : \A y \in S : x <= y
                       IN  <<m>> \o Asc(S \ {m})
        byId == Asc(ids)
        order == SortDesc(byId, [id \in ids |-> ById(id).score])
    IN  [i \in DOMAIN order |-> ById(order[i])]

\* The (candidate, strategy code) pairs in the order of the two loops.
RECURSIVE CandidateCodePairs(_)
CandidateCodePairs(candidates) ==
    IF candidates = <<>> THEN <<>>
    ELSE LET c == Head(candidates)
             codes == StrategyCodesForCandidate(c)
         IN  [i \in DOMAIN codes |-> [c |-> c, code |-> codes[i]]]
             \o CandidateCodePairs(Tail(candidates))

\* Lines 1256-1365: touched_rows, one row per (candidate, code) pair.  A row
\* found in existing keeps its id and the columns set by the constructor; a
\* new row gets the next free id.
TouchedRows(pairs, existing_rows, snapshot, first_id) ==
    LET Known(k) == \E r \in existing_rows :
                        /\ r.source_candidate_id = pairs[k].c.id
                        /\ r.strategy_code = pairs[k].code
        Old(k) == CHOOSE r \in existing_rows :
                        /\ r.source_candidate_id = pairs[k].c.id
                        /\ r.strategy_code = pairs[k].code
        NewBefore(k) == Cardinality({j \in 1..(k - 1) : ~Known(j)})
        Row(k) ==
            LET c == pairs[k].c
                code == pairs[k].code
                market == NormMarket(c.stock_market)
            IN  [id |-> IF Known(k) THEN Old(k).id ELSE first_id + NewBefore(k),
                 snapshot_date |-> IF Known(k) THEN Old(k).snapshot_date ELSE snapshot,
                 stock_symbol |-> IF Known(k) THEN Old(k).stock_symbol ELSE c.stock_symbol,
                 stock_market |-> IF Known(k) THEN Old(k).stock_market ELSE market,
                 strategy_code |-> code,
                 source_candidate_id |-> c.id,
                 risk_level |-> RiskLevel(code),
                 score |-> c.score,
                 strategy_weight |-> EffectiveWeight(code, market),
                 rank_score |-> WeightedScore(c, EffectiveWeight(code, market)),
                 status |-> c.status,
                 action |-> SignalAction(c),
                 is_holding_snapshot |-> c.is_holding_snapshot,
                 entry_low |-> c.entry_low,
                 entry_high |-> c.entry_high,
                 stop_loss |-> c.stop_loss,
                 target_price |-> c.target_price,
                 quote_price |-> c.quote_price,
                 reasons |-> <<>>,
                 constrained |-> FALSE]
    IN  [k \in DOMAIN pairs |-> Row(k)]

\* refresh_strategy_signals(snapshot_date) after the optional candidate
\* rebuild: the signal table afterwards and the constraint statistics.
\* snapshot_date 0 stands for "", the latest candidate snapshot.
SignalRefreshOutcome(cands, signals, snapshot_date) ==
    LET snapshot == IF snapshot_date # 0 THEN snapshot_date
                    ELSE IF cands = {} THEN 0
                    ELSE CHOOSE d \in {c.snapshot_date : c \in cands} :
                             \A c \in cands : c.snapshot_date <= d
        \* The flush writes the touched rows next to every row already in the
        \* table; the stale rows of the snapshot are deleted after it.
        Commit(existing_rows, constrained) ==
            LET touched == Range(constrained.rows)
                flushed == {r \in signals : r.id \notin {t.id : t \in touched}} \cup touched
                stale == {r \in existing_rows : r.id \notin {t.id : t \in touched}}
            IN  IF SignalUnique(flushed)
                THEN [raised |-> FALSE, rows |-> flushed \ stale,
                      stats |-> [demoted |-> constrained.demoted,
                                 by_reason |-> constrained.by_reason]]
                ELSE [raised |-> TRUE, rows |-> signals, stats |-> [demoted |-> 0]]
        Build(existing_rows, pairs) ==
            Only({Commit(existing_rows, constrained) :
                  constrained \in {ApplyPortfolioConstraints(
                      TouchedRows(pairs, existing_rows, snapshot, NextId(signals)))}})
        Run(candidates) ==
            IF candidates = <<>>
            THEN [raised |-> FALSE, rows |-> signals, stats |-> [demoted |-> 0]]
            ELSE Only({Build({r \in signals : r.snapshot_date = snapshot}, pairs) :
                       pairs \in {CandidateCodePairs(candidates)}})
    IN  Only({Run(candidates) :
              candidates \in {CandidateList({c \in cands : c.snapshot_date = snapshot})}})

\* refresh_strategy_signals(snapshot_date, rebuild_candidates): with
\* rebuild_candidates the candidate refresh runs first, for snapshot_date or
\* for today; if it raises, so does this call.
RefreshStrategySignals(snapshot_date, rebuild_candidates, today, suggestions, market_scan_map, holdings, db_error) ==
    \E rebuilt \in {IF rebuild_candidates
                    THEN EntryRefreshOutcome(ecRows,
                             IF snapshot_date # 0 THEN snapshot_date ELSE today,
                             suggestions, market_scan_map, holdings, db_error)
                    ELSE [raised |-> FALSE, rows |-> ecRows, items |-> {}]} :
        /\ ecRows' = rebuilt.rows
        /\ ecReturned' =
               IF rebuild_candidates /\ ~rebuilt.raised
               THEN [ecReturned EXCEPT ![IF snapshot_date # 0 THEN snapshot_date ELSE today] =
                        [called |-> TRUE, items |-> rebuilt.items]]
               ELSE ecReturned
        /\ ecCalls' = ecCalls
        /\ sgCalls' = sgCalls + 1
        /\ IF rebuilt.raised
           THEN UNCHANGED <<sgRows, sgStats>>
           ELSE \E out \in {SignalRefreshOutcome(rebuilt.rows, sgRows, snapshot_date)} :
                    /\ sgRows' = out.rows
                    /\ sgStats' = IF out.raised THEN sgStats ELSE out.stats

\* ------------------------------------------------------------------------
\* Inputs of the candidate and signal refreshes
\* ------------------------------------------------------------------------
MaxCalls == 2              \* refresh requests of either kind per behaviour

EcSuggestion(market, symbol, action, kline, price) ==
    [stock_market |-> market, stock_symbol |-> symbol, action |-> action,
     kline |-> kline, price |-> price]

EcScanEntry(market, symbol, action, tags, kline, price) ==
    [key |-> <<market, symbol>>, has_suggestion |-> FALSE, action |-> action,
     candidate_source |-> "market_scan", strategy_tags_seed |-> tags,
     kline |-> kline, price |-> price]

\* What the loaders return in one call: the latest suggestions, the
\* market-scan map, and the stocks that have a position.
EcLoaded(suggestions, market_scan_map, holdings) ==
    [suggestions |-> suggestions, market_scan_map |-> market_scan_map,
     holdings |-> holdings]

EcHeldA == {[market |-> "hk", symbol |-> "A"]}
EcHeldB == {[market |-> "", symbol |-> "B "], [market |-> "US", symbol |-> "A"]}

EcInputs ==
    { \* nothing: no unexpired suggestion, every scan feed and fallback empty
      EcLoaded(<<>>, <<>>, EcHeldA),
      \* one suggestion, raw spelling, stock held / not held
      EcLoaded(<<EcSuggestion("hk", "A", " Buy", "bull_macd", 1000)>>, <<>>, EcHeldA),
      EcLoaded(<<EcSuggestion("hk", "A", "ADD", "bear", 0)>>, <<>>, {}),
      \* two spellings of one stock, which the live scan has too
      EcLoaded(<<EcSuggestion("HK", " A", "ADD", "flat", 1000),
                 EcSuggestion("hk", "A", "watch", "flat", 1000)>>,
               <<EcScanEntry("HK", "A", "", <<>>, "bull_volume", 1000)>>, {}),
      \* a market that is no market code, and a suggestion without a symbol,
      \* next to a row seeded from an earlier candidate and a live scan row
      EcLoaded(<<EcSuggestion("SG", "B ", "buy", "bull_volume", 1000),
                 EcSuggestion("US", "", "buy", "flat", 1000)>>,
               <<EcScanEntry("CN", "B", "add", <<"pullback">>, "flat", 1000),
                 EcScanEntry("US", "A", "", <<>>, "bull_macd", 1000)>>, EcHeldB),
      \* scan rows only: seeded and derived actions, stocks held / not held
      EcLoaded(<<>>,
               <<EcScanEntry("CN", "B", "add", <<"pullback">>, "flat", 1000),
                 EcScanEntry("US", "A", "", <<>>, "bull_macd", 0),
                 EcScanEntry("HK", "A", "", <<>>, "bull_volume", 1000)>>, {}),
      EcLoaded(<<>>,
               <<EcScanEntry("CN", "B", "buy", <<>>, "bull_macd", 1000),
                 EcScanEntry("US", "A", "", <<>>, "bull_macd", 1000),
                 EcScanEntry("HK", "A", "", <<>>, "bear", 1000)>>, EcHeldB),
      \* two stocks of one market that only the scan strategy recommends
      EcLoaded(<<>>,
               <<EcScanEntry("CN", "A", "buy", <<>>, "flat", 1000),
                 EcScanEntry("CN", "B", "buy", <<>>, "flat", 1000)>>, {}) }

EcIdle ==
    /\ ecRows = {}
    /\ ecReturned = [d \in SnapshotDates |-> [called |-> FALSE, items |-> {}]]
    /\ ecCalls = 0

SwIdle ==
    /\ swRows = {}
    /\ swHistory = <<>>
    /\ swLast = [calls |-> 0]

SgIdle ==
    /\ sgRows = {}
    /\ sgStats = [demoted |-> 0]
    /\ sgCalls = 0

\* A candidate refresh requested on its own.
EcRefresh ==
    /\ ecCalls + sgCalls < MaxCalls
    /\ \E snapshot \in SnapshotDates, loaded \in EcInputs, db_error \in BOOLEAN :
           RefreshEntryCandidates(snapshot, loaded.suggestions, loaded.market_scan_map,
                                  loaded.holdings, db_error)
    /\ UNCHANGED <<sgVars, pcVars, swVars, ocVars, alVars, svcVars>>

\* A signal refresh, with or without a rebuild of the candidates.
SgRefresh ==
    /\ ecCalls + sgCalls < MaxCalls
    /\ \E snapshot_date \in SnapshotDates \cup {0}, rebuild_candidates \in BOOLEAN :
           IF rebuild_candidates
           THEN \E today \in (IF snapshot_date = 0 THEN SnapshotDates ELSE {snapshot_date}),
                   loaded \in EcInputs, db_error \in BOOLEAN :
                    RefreshStrategySignals(snapshot_date, TRUE, today, loaded.suggestions,
                                           loaded.market_scan_map, loaded.holdings, db_error)
           ELSE RefreshStrategySignals(snapshot_date, FALSE, 1, <<>>, <<>>, {}, FALSE)
    /\ UNCHANGED <<pcVars, swVars, ocVars, alVars, svcVars>>

EcNext == EcRefresh \/ SgRefresh

\* ------------------------------------------------------------------------
\* Claims about the candidate snapshot
\* ------------------------------------------------------------------------
EcRowsOf(d) == {r \in ecRows : r.snapshot_date = d}

\* C1: after any sequence of refresh_entry_candidates calls for a snapshot
\* date, the table holds one row per (symbol, market, date), and the rows of
\* the date are exactly the rows reported by the latest call that returned
\* normally; a call that raised left the table as it was.
C1_SnapshotIsLatestCall ==
    /\ CandidateUnique(ecRows)
    /\ \A d \in SnapshotDates :
           ecReturned[d].called => {Reported(r) : r \in EcRowsOf(d)} = ecReturned[d].items

\* What does hold: one row per key, and the rows of a date are those of the
\* latest call that returned normally with at least one input.
EcSnapshotIsLatestNonEmptyCall ==
    /\ CandidateUnique(ecRows)
    /\ \A d \in SnapshotDates :
           /\ ecReturned[d].items # {} =>
                  {Reported(r) : r \in EcRowsOf(d)} = ecReturned[d].items
           /\ ~ecReturned[d].called => EcRowsOf(d) = {}

\* A row obeys holding normalization: no buy on a held stock, no add on a
\* stock that is not held.
HoldingNormalized(r) ==
    /\ r.action = "buy" => ~r.is_holding_snapshot
    /\ r.action = "add" => r.is_holding_snapshot

\* C6: every Candidate written by refresh_entry_candidates and every Signal
\* written by refresh_strategy_signals obeys holding normalization, whether
\* the action came from an agent suggestion, a seeded action or the derived
\* market-scan decision.
C6_HoldingNormalization ==
    /\ \A r \in ecRows : HoldingNormalized(r)
    /\ \A r \in sgRows : HoldingNormalized(r)

\* Reached: a held stock whose suggestion said buy (its score is the one of a
\* buy) stored as add, a stock not held whose seeded action was add stored as
\* buy, a derived add stored as buy, and signals written from such rows.
C6_Witness ==
    /\ \E r \in ecRows :
           /\ r.is_holding_snapshot /\ r.action = "add"
           /\ r.candidate_source = "watchlist"
           /\ r.score = ScoreSuggestion("buy", "bull_macd")
    /\ \E r \in ecRows :
           /\ ~r.is_holding_snapshot /\ r.action = "buy"
           /\ r.candidate_source = "market_scan"
           /\ r.score = ScoreMarketScanCandidate("add", "flat", <<"pullback">>)
    /\ \E r \in sgRows : r.is_holding_snapshot /\ r.action = "add"
    /\ \E r \in sgRows : ~r.is_holding_snapshot /\ r.action = "buy"

\* ------------------------------------------------------------------------
\* Outcome evaluation: entry_candidates.py, strategy_engine.py
\* ------------------------------------------------------------------------
Evaluators == {"job", "manual"}

\* sorted({max(1, int(h)) for h in horizons if int(h) > 0}), [1, 3, 5] if empty
SafeHorizons(horizons) ==
    LET safe == {Max(1, horizons[i]) : i \in {j \in DOMAIN horizons : horizons[j] > 0}}
    IN  IF safe = {} THEN {1, 3, 5} ELSE safe

\* _pick_close_on_or_before(klines, target): the close of the latest candle
\* dated on or before target, 0 (None) if there is none.
PickCloseOnOrBefore(klines, target) ==
    LET usable == {i \in DOMAIN klines : klines[i].date <= target}
        last == CHOOSE i \in usable :
                    \A j \in usable : klines[j].date < klines[i].date
                                      \/ (klines[j].date = klines[i].date /\ j <= i)
    IN  IF usable = {} THEN 0 ELSE klines[last].close

\* The base price chain: entry band midpoint, else the bound that is set,
\* else the quote stored with the row, else the close on or before the
\* snapshot day; 0 if none.
BasePrice(src, quote_price, klines) ==
    IF src.entry_low # 0 /\ src.entry_high # 0 THEN (src.entry_low + src.entry_high) \div 2
    ELSE IF src.entry_high # 0 THEN src.entry_high
    ELSE IF src.entry_low # 0 THEN src.entry_low
    ELSE IF quote_price # 0 THEN quote_price
    ELSE PickCloseOnOrBefore(klines, src.snapshot_date)

\* The stop is tested before the target.
StopBeforeTarget(src, base_price, outcome_price) ==
    IF base_price <= 0 THEN "no_base_price"
    ELSE IF src.stop_loss # 0 /\ outcome_price <= src.stop_loss THEN "hit_stop"
    ELSE IF src.target_price # 0 /\ outcome_price >= src.target_price THEN "hit_target"
    ELSE "evaluated"

\* evaluate_entry_candidate_outcomes: status of the outcome of candidate src
OutcomeStatus(src, base_price, outcome_price) ==
    IF base_price <= 0 THEN "no_base_price"
    ELSE IF src.target_price # 0 /\ outcome_price >= src.target_price THEN "hit_target"
    ELSE IF src.stop_loss # 0 /\ outcome_price <= src.stop_loss THEN "hit_stop"
    ELSE "evaluated"

\* evaluate_strategy_outcomes: status of the outcome of signal src
StrategyOutcomeStatus(src, base_price, outcome_price) ==
    IF base_price <= 0 THEN "no_base_price"
    ELSE IF src.target_price # 0 /\ outcome_price >= src.target_price THEN "hit_target"
    ELSE IF src.stop_loss # 0 /\ outcome_price <= src.stop_loss THEN "hit_stop"
    ELSE "evaluated"

\* ret = (outcome_price - base_price) / base_price * 100.0, in whole
\* percents; 0 where the code stores None
OutcomeReturnPct(base_price, outcome_price) ==
    IF base_price <= 0 THEN 0 ELSE ((outcome_price - base_price) * 100) \div base_price

\* The Outcome row of one (source, horizon) pair that is due and has an
\* outcome price.  outcome_return_pct is in whole percents and 0 where the
\* code stores None (status no_base_price).
OutcomeRow(src, quote_price, horizon, klines) ==
    LET outcome_price == PickCloseOnOrBefore(klines, src.snapshot_date + horizon)
        base_price == BasePrice(src, quote_price, klines)
    IN  [source_id |-> src.id,
         horizon_days |-> horizon,
         target_date |-> src.snapshot_date + horizon,
         base_price |-> base_price,
         outcome_price |-> outcome_price,
         outcome_return_pct |-> OutcomeReturnPct(base_price, outcome_price),
         outcome_status |-> OutcomeStatus(src, base_price, outcome_price)]

\* Ignores the rows that exist already.
NothingExisting(table, sources) == {}

\* existing: the (source id, horizon) pairs that have a row, read once before
\* the loop.
ExistingPairs(table, sources) ==
    {<<r.source_id, r.horizon_days>> :
        r \in {x \in table : x.source_id \in {src.id : src \in sources}}}

\* The loop over sources and horizons: the rows the run adds to its session.
\* A pair is skipped when it has a row already, when it is not due, and when
\* there is no outcome price.
PendingOutcomes(sources, existing, horizons, today, klines, quotes) ==
    {OutcomeRow(src, quotes[src.id], h, klines[<<src.stock_symbol, src.stock_market>>]) :
        <<src, h>> \in
            {x \in sources \X SafeHorizons(horizons) :
                /\ <<x[1].id, x[2]>> \notin existing
                /\ x[1].snapshot_date + x[2] <= today
                /\ PickCloseOnOrBefore(klines[<<x[1].stock_symbol, x[1].stock_market>>],
                                       x[1].snapshot_date + x[2]) # 0}}

\* stats["eligible"] += 1: the pairs of the loop that have no row and are
\* due, each with the close the loop picks for it (0: None).
EligiblePairs(sources, existing, horizons, today, klines) ==
    {[source_id |-> x[1].id, horizon_days |-> x[2],
      outcome_price |-> PickCloseOnOrBefore(klines[<<x[1].stock_symbol, x[1].stock_market>>],
                                            x[1].snapshot_date + x[2])] :
        x \in {y \in sources \X SafeHorizons(horizons) :
                  /\ <<y[1].id, y[2]>> \notin existing
                  /\ y[1].snapshot_date + y[2] <= today}}

\* UniqueConstraint("candidate_id", "horizon_days") and
\* UniqueConstraint("signal_run_id", "horizon_days")
OutcomeKey(r) == <<r.source_id, r.horizon_days>>

OutcomeUnique(rows) == \A a, b \in rows : OutcomeKey(a) = OutcomeKey(b) => a = b

\* db.commit(): the pending rows get the next ids and are inserted, unless one
\* of them collides with a row of the table; then the commit raises, the
\* session is rolled back and nothing is inserted.
CommitOutcomes(table, pending) ==
    LET Before(r) == {q \in pending :
                         \/ q.source_id < r.source_id
                         \/ (q.source_id = r.source_id /\ q.horizon_days < r.horizon_days)}
        WithId(r) == [source_id |-> r.source_id, horizon_days |-> r.horizon_days,
                      target_date |-> r.target_date, base_price |-> r.base_price,
                      outcome_price |-> r.outcome_price,
                      outcome_return_pct |-> r.outcome_return_pct,
                      outcome_status |-> r.outcome_status,
                      id |-> NextId(table) + Cardinality(Before(r))]
        inserted == table \cup {WithId(r) : r \in pending}
    IN  IF OutcomeUnique(inserted) THEN inserted ELSE table


\* .order_by(snapshot_date.desc(), <score>.desc()).limit(max(1, int(limit))):
\* the rows the evaluator looks at.  rank maps a row id to its ordering score.
OutcomeSources(rows, rank, limit) ==
    LET ids == {r.id : r \in rows}
        ById(id) == CHOOSE r \in rows : r.id = id
        RECURSIVE Asc(_)
        Asc(S) == IF S = {} THEN <<>>
                  ELSE LET m == CHOOSE x \in S : \A y \in S : x <= y
                       IN  <<m>> \o Asc(S \ {m})
        order == SortDesc(Asc(ids), [id \in ids |-> ById(id).snapshot_date * 1000 + rank[id]])
    IN  {ById(order[i]) : i \in 1..Min(Max(1, limit), Len(order))}

\* The candidates evaluate_entry_candidate_outcomes reads.
CandidateSources(rows, today, snapshot_days, limit) ==
    LET hit == {c \in rows : /\ c.status = "active"
                             /\ c.snapshot_date >= today - Max(7, snapshot_days)}
    IN  OutcomeSources(hit, [id \in {c.id : c \in hit} |->
                                 (CHOOSE c \in hit : c.id = id).score], limit)

\* The signals evaluate_strategy_outcomes reads.
SignalSources(rows, today, snapshot_days, limit) ==
    LET hit == {s \in rows : /\ s.snapshot_date >= today - Max(7, snapshot_days)
                             /\ s.status \in {"active", "inactive"}
                             /\ s.action \in {"buy", "add", "hold", "watch"}}
    IN  OutcomeSources(hit, [id \in {s.id : s \in hit} |->
                                 (CHOOSE s \in hit : s.id = id).rank_score], limit)

\* One evaluator run up to its commit: the sources, the existing pairs and the
\* rows added to the session.
EvaluateOutcomes(sources, table, horizons, today, klines) ==
    LET Loop(existing) ==
            [existing |-> existing,
             eligible |-> EligiblePairs(sources, existing, horizons, today, klines),
             pending |-> PendingOutcomes(sources, existing, horizons, today, klines,
                                         [id \in {src.id : src \in sources} |->
                                             (CHOOSE src \in sources : src.id = id).quote_price])]
    IN  IF sources = {} THEN [existing |-> {}, eligible |-> {}, pending |-> {}]
        ELSE Only({Loop(existing) : existing \in {ExistingPairs(table, sources)}})

\* Inputs of the evaluator runs.
MaxRuns == 3
MaxToday == 3
Candle(d, close) == [date |-> d, close |-> close]

OcStockKeys == {<<"A", "HK">>, <<"A", "US">>, <<"B", "CN">>}

OcCall(horizons, limit, klines) == [horizons |-> horizons, limit |-> limit, klines |-> klines]

\* The arguments of one run and what KlineCollector returns in it.
OcInputs ==
    { \* the scheduler's call, candles for every day
      OcCall(<<1, 3, 5, 10>>, 400,
             [k \in OcStockKeys |->
                 <<Candle(1, 1000), Candle(2, 1100), Candle(3, 900), Candle(4, 1000)>>]),
      \* horizons with an entry that is dropped
      OcCall(<<0, 2>>, 400,
             [k \in OcStockKeys |->
                 <<Candle(1, 1000), Candle(2, 1100), Candle(3, 900), Candle(4, 1000)>>]),
      \* no horizon left, one source only, no candle up to the first snapshot
      OcCall(<<>>, 1, [k \in OcStockKeys |-> <<Candle(3, 900), Candle(2, 1000)>>]),
      \* the fetch fails for one stock
      OcCall(<<1, 3, 5, 10>>, 400,
             [k \in OcStockKeys |->
                 IF k = <<"A", "HK">> THEN <<>> ELSE <<Candle(1, 1000), Candle(2, 900)>>]),
      \* the fetch fails for every stock
      OcCall(<<1, 3, 5, 10>>, 400, [k \in OcStockKeys |-> <<>>]) }

\* Evaluator runs started so far.
OcRuns == ocRun["job"].runs + ocRun["manual"].runs

OcIdleRun ==
    [phase |-> "idle", existing |-> {}, eligible |-> {}, pending |-> {}, evaluated |-> 0,
     runs |-> 0, failed |-> FALSE]

OcIdle ==
    /\ ecoRows = {}
    /\ soRows = {}
    /\ ocToday = 2
    /\ ocRun = [p \in Evaluators |-> OcIdleRun]

\* The candidates and signals the evaluators find: two snapshots, each
\* written by a candidate refresh followed by a signal refresh.
OcSnapshots ==
    LET day1 == EcLoaded(<<>>,
                    <<EcScanEntry("CN", "B", "buy", <<>>, "bull_macd", 1000),
                      EcScanEntry("US", "A", "", <<>>, "bull_macd", 1000),
                      EcScanEntry("HK", "A", "", <<>>, "bear", 1000)>>, EcHeldB)
        day2 == EcLoaded(<<EcSuggestion("hk", "A", "ADD", "bear", 0)>>, <<>>, {})
        c1 == EntryRefreshOutcome({}, 1, day1.suggestions, day1.market_scan_map,
                                  day1.holdings, FALSE).rows
        s1 == SignalRefreshOutcome(c1, {}, 1).rows
        c2 == EntryRefreshOutcome(c1, 2, day2.suggestions, day2.market_scan_map,
                                  day2.holdings, FALSE).rows
        s2 == SignalRefreshOutcome(c2, s1, 2).rows
    IN  [candidates |-> c2, signals |-> s2]

OcInit ==
    /\ OcIdle
    /\ \E snap \in {OcSnapshots} :
           /\ ecRows = snap.candidates
           /\ sgRows = snap.signals
    /\ ecReturned = [d \in SnapshotDates |-> [called |-> FALSE, items |-> {}]]
    /\ ecCalls = 0
    /\ sgStats = [demoted |-> 0]
    /\ sgCalls = 0

\* evaluate_entry_candidate_outcomes up to db.commit()
EvaluateEntryCandidateOutcomesBegin(p) ==
    /\ ocRun[p].phase = "idle"
    /\ OcRuns < MaxRuns
    /\ \E call \in OcInputs :
         \E run \in {EvaluateOutcomes(CandidateSources(ecRows, ocToday, 45, call.limit),
                                      ecoRows, call.horizons, ocToday, call.klines)} :
            ocRun' = [ocRun EXCEPT ![p] = [phase |-> "candidates",
                                           existing |-> run.existing,
                                           eligible |-> run.eligible,
                                           pending |-> run.pending,
                                           evaluated |-> Cardinality(run.pending),
                                           runs |-> @.runs + 1,
                                           failed |-> FALSE]]
    /\ UNCHANGED <<ecoRows, soRows, ocToday, pcVars, ecVars, swVars, sgVars, alVars, svcVars>>

\* db.commit() of evaluate_entry_candidate_outcomes, or the rollback
EvaluateEntryCandidateOutcomesCommit(p) ==
    /\ ocRun[p].phase = "candidates"
    /\ \E committed \in {CommitOutcomes(ecoRows, ocRun[p].pending)} :
           /\ ecoRows' = committed
           /\ ocRun' = [ocRun EXCEPT ![p] =
                            [@ EXCEPT !.phase = "idle", !.existing = {}, !.eligible = {},
                                      !.pending = {},
                                      !.failed = (ocRun[p].pending # {}
                                                  /\ committed = ecoRows)]]
    /\ UNCHANGED <<soRows, ocToday, pcVars, ecVars, swVars, sgVars, alVars, svcVars>>

\* evaluate_strategy_outcomes up to db.commit()
EvaluateStrategyOutcomesBegin(p) ==
    /\ ocRun[p].phase = "idle"
    /\ OcRuns < MaxRuns
    /\ \E call \in OcInputs :
         \E run \in {EvaluateOutcomes(SignalSources(sgRows, ocToday, 60, call.limit),
                                      soRows, call.horizons, ocToday, call.klines)} :
            ocRun' = [ocRun EXCEPT ![p] = [phase |-> "signals",
                                           existing |-> run.existing,
                                           eligible |-> run.eligible,
                                           pending |-> run.pending,
                                           evaluated |-> Cardinality(run.pending),
                                           runs |-> @.runs + 1,
                                           failed |-> FALSE]]
    /\ UNCHANGED <<ecoRows, soRows, ocToday, pcVars, ecVars, swVars, sgVars, alVars, svcVars>>

\* db.commit() of evaluate_strategy_outcomes, or the rollback
EvaluateStrategyOutcomesCommit(p) ==
    /\ ocRun[p].phase = "signals"
    /\ \E committed \in {CommitOutcomes(soRows, ocRun[p].pending)} :
           /\ soRows' = committed
           /\ ocRun' = [ocRun EXCEPT ![p] =
                            [@ EXCEPT !.phase = "idle", !.existing = {}, !.eligible = {},
                                      !.pending = {},
                                      !.failed = (ocRun[p].pending # {}
                                                  /\ committed = soRows)]]
    /\ UNCHANGED <<ecoRows, ocToday, pcVars, ecVars, swVars, sgVars, alVars, svcVars>>

\* Midnight: date.today() moves on.
OcTick ==
    /\ ocToday < MaxToday
    /\ ocToday' = ocToday + 1
    /\ UNCHANGED <<ecoRows, soRows, ocRun, pcVars, ecVars, swVars, sgVars, alVars, svcVars>>

OcNext ==
    \/ \E p \in Evaluators : EvaluateEntryCandidateOutcomesBegin(p)
    \/ \E p \in Evaluators : EvaluateEntryCandidateOutcomesCommit(p)
    \/ \E p \in Evaluators : EvaluateStrategyOutcomesBegin(p)
    \/ \E p \in Evaluators : EvaluateStrategyOutcomesCommit(p)
    \/ OcTick


\* ------------------------------------------------------------------------
\* Claims about the outcome evaluators
\* ------------------------------------------------------------------------
OcPairs(rows) == {<<r.source_id, r.horizon_days>> : r \in rows}

OcRowsOfPair(rows, pair) == {r \in rows : <<r.source_id, r.horizon_days>> = pair}

OcAtMostOnePerPair(rows) == \A pair \in OcPairs(rows) : Cardinality(OcRowsOfPair(rows, pair)) <= 1

\* Every row of the tables is still there, unchanged, after the step.
OcRowsKept == ecoRows \subseteq ecoRows' /\ soRows \subseteq soRows'

\* A run that starts in this step adds no row for a pair that has one.
OcStartedRunSkips ==
    \A p \in Evaluators :
        (ocRun[p].phase = "idle" /\ ocRun'[p].phase # "idle") =>
            OcPairs(ocRun'[p].pending)
                \cap OcPairs(IF ocRun'[p].phase = "candidates" THEN ecoRows ELSE soRows) = {}

\* C2: whatever evaluator runs happen, one after another or overlapping, each
\* Outcome table has at most one row per (source id, horizon_days); no step
\* changes or removes a row that exists; and a run that starts when a pair
\* has a row does not add a row for that pair.
C2_OneOutcomePerPair ==
    /\ [](OcAtMostOnePerPair(ecoRows) /\ OcAtMostOnePerPair(soRows))
    /\ [][OcRowsKept /\ OcStartedRunSkips]_vars

\* Two runs overlapped and the commit of one of them was rolled back, and
\* another run is under way that found rows and adds rows for other pairs.
C2_Witness ==
    \E p, q \in Evaluators :
        /\ p # q
        /\ ocRun[p].failed
        /\ ocRun[q].phase # "idle"
        /\ ocRun[q].existing # {}
        /\ ocRun[q].pending # {}


\* Run p commits, or is rolled back, in this step.
OcCommits(p) == ocRun[p].phase # "idle" /\ ocRun'[p].phase = "idle"

\* The table run p writes to.
OcTableOf(p) == IF ocRun[p].phase = "candidates" THEN ecoRows ELSE soRows

\* The rows the step adds to the table of run p.
OcWritten(p) ==
    IF ocRun[p].phase = "candidates" THEN ecoRows' \ ecoRows ELSE soRows' \ soRows

\* Run p, ending in this step, writes a row for each of its due pairs that
\* still has no row if and only if the pair has a close on or before its
\* target date; a row without a positive base price is no_base_price with
\* no return.
OcWritesDuePairs(p) ==
    /\ \A e \in ocRun[p].eligible :
           <<e.source_id, e.horizon_days>> \notin OcPairs(OcTableOf(p)) =>
               (<<e.source_id, e.horizon_days>> \in OcPairs(OcWritten(p)) <=> e.outcome_price # 0)
    /\ \A r \in OcWritten(p) :
           r.base_price <= 0 => r.outcome_status = "no_base_price" /\ r.outcome_return_pct = 0

\* A pair that has a row is not eligible in a run that starts in this step.
OcTerminal ==
    \A p \in Evaluators :
        (ocRun[p].phase = "idle" /\ ocRun'[p].phase # "idle") =>
            {<<e.source_id, e.horizon_days>> : e \in ocRun'[p].eligible}
                \cap OcPairs(IF ocRun'[p].phase = "candidates" THEN ecoRows ELSE soRows) = {}

\* C21: for a due (source, horizon) pair without an Outcome row, an
\* evaluation run writes a row if and only if a close dated on or before
\* the target date is available; a pair with a close and no positive base
\* price gets a no_base_price row with no return, and a pair that has a row
\* is not evaluated again.
C21_RowIffCloseAvailable ==
    [][(\A p \in Evaluators : OcCommits(p) => OcWritesDuePairs(p)) /\ OcRowsKept /\ OcTerminal]_vars

\* The same of the runs whose commit goes through.
OcCommittedRunWritesDuePairs ==
    [][(\A p \in Evaluators : OcCommits(p) /\ ~ocRun'[p].failed => OcWritesDuePairs(p))
       /\ OcRowsKept /\ OcTerminal]_vars

\* C28: the evaluated count in the statistics a run returns equals the
\* number of Outcome rows the run persisted, also when its commit fails
\* and its inserts are rolled back.
C28_EvaluatedCountsPersistedRows ==
    [][\A p \in Evaluators : OcCommits(p) => ocRun'[p].evaluated = Cardinality(OcWritten(p))]_vars

\* The same of the runs whose commit goes through.
OcEvaluatedCountsCommittedRows ==
    [][\A p \in Evaluators :
          OcCommits(p) /\ ~ocRun'[p].failed => ocRun'[p].evaluated = Cardinality(OcWritten(p))]_vars

\* ------------------------------------------------------------------------
\* Weight rebalancing: strategy_engine.py
\* Weights are in 1/10000, alpha in 1/100, returns in 1/100 percent; the
\* terms of the target are kept to three decimals.
\* ------------------------------------------------------------------------
WEIGHT_MARKETS == <<"ALL", "CN", "HK", "US">>

\* The catalog in the order of DEFAULT_STRATEGIES.
CatalogCodes ==
    <<"trend_follow", "macd_golden", "volume_breakout", "pullback", "rebound",
      "watchlist_agent", "market_scan">>

NoMetrics == [sample_size |-> 0, wins |-> 0, avg_return_pct |-> 0]

\* (market or "ALL").strip().upper() or "ALL"
AggMarket(raw) ==
    CASE raw \in {"", " "} -> "ALL"
      [] raw \in {"hk", "HK", " hk"} -> "HK"
      [] raw \in {"cn", "CN"} -> "CN"
      [] raw \in {"us", "US"} -> "US"
      [] OTHER -> raw

RECURSIVE SumOver(_, _)
SumOver(S, f) ==
    IF S = {} THEN 0
    ELSE LET x == CHOOSE y \in S : TRUE IN f[x] + SumOver(S \ {x}, f)

\* _aggregate_recent_outcomes: agg is the grouped query result, a set of
\* rows (strategy_code, stock_market, total, wins, avg_ret).  The metrics of a
\* target: of the pair for a market, summed over the markets for "ALL".
AggregateRecentOutcomes(agg, code, market) ==
    LET of_code == {g \in agg : g.strategy_code = code}
        of_pair == {g \in of_code : AggMarket(g.stock_market) = market}
        total == SumOver(of_code, [g \in of_code |-> g.total])
        ret_sum == SumOver(of_code, [g \in of_code |-> g.avg_ret * g.total])
    IN  IF market = "ALL"
        THEN IF of_code = {} THEN NoMetrics
             ELSE [sample_size |-> total,
                   wins |-> SumOver(of_code, [g \in of_code |-> g.wins]),
                   avg_return_pct |-> IF total > 0 THEN ret_sum \div total ELSE 0]
        ELSE IF of_pair = {} THEN NoMetrics
             ELSE LET g == CHOOSE x \in of_pair : TRUE
                  IN  [sample_size |-> g.total, wins |-> g.wins, avg_return_pct |-> g.avg_ret]

\* alpha = _clamp(float(alpha or 0.35), 0.05, 0.95)
SafeAlpha(alpha) == Clamp(IF alpha = 0 THEN 35 ELSE alpha, 5, 95)

\* min_samples = max(3, min(int(min_samples or 8), 200))
SafeMinSamples(min_samples) == Max(3, Min(IF min_samples = 0 THEN 8 ELSE min_samples, 200))

\* No clamp at all.
UnclampedWeight(num, den) == num

\* _clamp(x, 0.45, 1.90) of the fraction num / den, as a numerator over den
ClampWeight(num, den) == Clamp(num, 4500 * den, 19000 * den)

\* target = _clamp(default_weight * (1 + 0.45 * win_term + 0.35 * ret_term), 0.45, 1.90)
\* in 1/100000, with win_term and ret_term in 1/1000
TargetWeight(default_weight, m) ==
    LET \* win_term = _clamp((win_rate - 50) / 50, -1, 1)
        win_term == IF m.sample_size > 0
                    THEN Clamp(RoundHalfEven((2 * m.wins - m.sample_size) * 1000,
                                             m.sample_size), -1000, 1000)
                    ELSE -1000
        \* ret_term = _clamp(avg_ret / 8, -1, 1)
        ret_term == Clamp(RoundHalfEven(m.avg_return_pct * 5, 4), -1000, 1000)
    IN  ClampWeight(RoundHalfEven(default_weight * (100000 + 45 * win_term + 35 * ret_term),
                                  10000), 10)

\* A step of 1 + alpha instead of alpha: past the target.
PastTarget(old_weight, target, alpha) ==
    RoundHalfEven(ClampWeight(Max(0, old_weight * 10 * (100 - alpha) + target * alpha
                                     + (target - old_weight * 10) * 100), 1000), 1000)

\* new_weight = round(_clamp(old * (1 - alpha) + target * alpha, 0.45, 1.90), 4)
NewWeight(old_weight, target, alpha) ==
    RoundHalfEven(ClampWeight(old_weight * 10 * (100 - alpha) + target * alpha, 1000), 1000)

\* The loop body for one target: what happens to its weight.
RebalanceTarget(rows, code, market, m, min_samples, alpha) ==
    LET has_row == \E r \in rows : r.strategy_code = code /\ r.market = market
        old_weight == IF has_row
                      THEN (CHOOSE r \in rows : r.strategy_code = code /\ r.market = market).weight
                      ELSE DefaultWeight(code)
        new_weight == NewWeight(old_weight, TargetWeight(DefaultWeight(code), m), alpha)
        low_sample == m.sample_size < min_samples
        noise == ~low_sample /\ new_weight - old_weight < 100 /\ old_weight - new_weight < 100
    IN  [strategy_code |-> code, market |-> market, sample_size |-> m.sample_size,
         old_weight |-> old_weight,
         new_weight |-> IF low_sample \/ noise THEN old_weight ELSE new_weight,
         skipped_low_sample |-> low_sample,
         changed |-> ~low_sample /\ ~noise]

\* targets: for each catalog row "ALL" and the three markets, in order
RebalanceTargets ==
    [k \in 1..(Len(CatalogCodes) * Len(WEIGHT_MARKETS)) |->
        [code |-> CatalogCodes[((k - 1) \div Len(WEIGHT_MARKETS)) + 1],
         market |-> WEIGHT_MARKETS[((k - 1) % Len(WEIGHT_MARKETS)) + 1]]]

RECURSIVE ChangedOnly(_)
ChangedOnly(steps) ==
    IF steps = <<>> THEN <<>>
    ELSE (IF Head(steps).changed THEN <<Head(steps)>> ELSE <<>>) \o ChangedOnly(Tail(steps))


\* A session that has written its first change when the run fails.
CommittedFirst(changes, db_error) == IF db_error THEN Prefix(changes, 1) ELSE changes

\* What db.commit() writes of the changes the loop has added to the session:
\* all of them, or, when the run raises before the commit returns, none,
\* because the except branch rolls the session back.
Committed(changes, db_error) == IF db_error THEN <<>> ELSE changes

\* rebalance_strategy_weights(window_days, min_samples, alpha) for regime
\* "default", the only regime a caller passes.  agg is what the aggregate
\* query returns; with db_error the commit raises and the session is rolled
\* back.
RebalanceStrategyWeights(window_days, min_samples, alpha, agg, db_error) ==
    LET safe_alpha == SafeAlpha(alpha)
        safe_window == Max(7, Min(IF window_days = 0 THEN 45 ELSE window_days, 365))
        safe_min == SafeMinSamples(min_samples)
        Step(t) == RebalanceTarget(swRows, t.code, t.market,
                                   AggregateRecentOutcomes(agg, t.code, t.market),
                                   safe_min, safe_alpha)
        Log(calls, result) ==
            [calls |-> calls,
             call |-> [window_days |-> window_days, min_samples |-> min_samples,
                       alpha |-> alpha],
             agg |-> agg, before |-> swRows, history_before |-> Len(swHistory),
             result |-> result]
        Finish(steps, changes) ==
            \E written \in {Committed(changes, db_error)} :
                 /\ swRows' =
                     {r \in swRows : ~\E i \in DOMAIN written :
                                         /\ written[i].strategy_code = r.strategy_code
                                         /\ written[i].market = r.market}
                     \cup {[strategy_code |-> written[i].strategy_code,
                            market |-> written[i].market,
                            weight |-> written[i].new_weight] : i \in DOMAIN written}
                 /\ swHistory' = swHistory \o
                     [i \in DOMAIN written |->
                         [strategy_code |-> written[i].strategy_code,
                          market |-> written[i].market,
                          old_weight |-> written[i].old_weight,
                          new_weight |-> written[i].new_weight,
                          sample_size |-> written[i].sample_size]]
                 /\ swLast' = Log(swLast.calls + 1,
                        IF db_error
                        THEN [window_days |-> safe_window, min_samples |-> safe_min,
                              alpha |-> safe_alpha, checked |-> 0, changed |-> 0,
                              skipped_low_sample |-> 0, changes |-> <<>>,
                              error |-> TRUE]
                        ELSE [window_days |-> safe_window, min_samples |-> safe_min,
                              alpha |-> safe_alpha, checked |-> Len(steps),
                              changed |-> Len(changes),
                              skipped_low_sample |->
                                  Cardinality({i \in DOMAIN steps :
                                                  steps[i].skipped_low_sample}),
                              changes |-> changes, error |-> FALSE])
    IN  \E steps \in {[k \in DOMAIN RebalanceTargets |-> Step(RebalanceTargets[k])]} :
            \E changes \in {ChangedOnly(steps)} : Finish(steps, changes)

\* Inputs of the rebalance runs.
MaxRebalances == 2

SwCall(window_days, min_samples, alpha) ==
    [window_days |-> window_days, min_samples |-> min_samples, alpha |-> alpha]

SwCalls ==
    { SwCall(45, 8, 35),      \* the scheduler's call
      SwCall(45, 300, 95),    \* the largest alpha and a threshold the API accepts
      SwCall(0, 0, 0),        \* falsy arguments
      SwCall(400, 1, 200),    \* arguments beyond their ranges
      SwCall(45, 3, -10) }

SwAgg(code, market, total, wins, avg_ret) ==
    [strategy_code |-> code, stock_market |-> market, total |-> total, wins |-> wins,
     avg_ret |-> avg_ret]

\* What the aggregate query finds: nothing; many winning outcomes; a few
\* losing ones; outcomes that barely move the target; outcomes that put the
\* target between the default and the upper bound.
SwAggs ==
    { {},
      {SwAgg("volume_breakout", "CN", 250, 250, 1200),
       SwAgg("volume_breakout", "hk", 2, 0, -900)},
      {SwAgg("rebound", "US", 8, 0, -2000), SwAgg("rebound", "", 3, 3, 50)},
      {SwAgg("pullback", "CN", 8, 4, 10)},
      {SwAgg("trend_follow", "US", 10, 8, 400)} }

SwRebalance ==
    /\ swLast.calls < MaxRebalances
    /\ \E call \in SwCalls, agg \in SwAggs, db_error \in BOOLEAN :
           RebalanceStrategyWeights(call.window_days, call.min_samples, call.alpha,
                                    agg, db_error)
    /\ UNCHANGED <<pcVars, ecVars, sgVars, ocVars, alVars, svcVars>>

SwNext == SwRebalance

\* The job run again and again while the outcome statistics stay as they
\* are: every run after the first gets the arguments and the statistics of
\* the run before it.  A run can fail among the first MaxRebalances.
MaxRepeats == 30

SwRepeat(db_error) ==
    /\ swLast.calls > 0
    /\ RebalanceStrategyWeights(swLast.call.window_days, swLast.call.min_samples,
                                swLast.call.alpha, swLast.agg, db_error)
    /\ UNCHANGED <<pcVars, ecVars, sgVars, ocVars, alVars, svcVars>>

SwFirstRun == swLast.calls = 0 /\ SwRebalance

SwRunAgain == swLast.calls < MaxRepeats /\ SwRepeat(FALSE)

SwRunAgainFails == swLast.calls < MaxRebalances /\ SwRepeat(TRUE)

SwSteadyNext == SwFirstRun \/ SwRunAgain \/ SwRunAgainFails


\* ------------------------------------------------------------------------
\* Claims about the weights
\* ------------------------------------------------------------------------
SwInRange(weight) == 4500 <= weight /\ weight <= 19000

\* C3: after any sequence of rebalance runs, whatever the outcome statistics
\* and alpha, every stored weight and every new_weight of the history is
\* within [0.45, 1.90].
C3_WeightsInRange ==
    /\ \A r \in swRows : SwInRange(r.weight)
    /\ \A i \in DOMAIN swHistory : SwInRange(swHistory[i].new_weight)

\* Two runs have been made and a weight has been moved to within 0.05 of a
\* bound, so far that the unclamped target lies beyond the bound.
C3_Witness ==
    /\ swLast.calls = 2
    /\ \E r \in swRows : r.weight > 18500
    /\ \E i \in DOMAIN swHistory : swHistory[i].new_weight < 5000

\* The weight of a pair in a weight table, 0 if the pair has no row.
SwStored(rows, t) ==
    IF \E r \in rows : r.strategy_code = t.code /\ r.market = t.market
    THEN (CHOOSE r \in rows : r.strategy_code = t.code /\ r.market = t.market).weight
    ELSE 0

\* The last run changed the stored weight of the pair or appended a history
\* row for it.
SwTouched(t) ==
    \/ SwStored(swRows, t) # SwStored(swLast.before, t)
    \/ \E i \in (swLast.history_before + 1)..Len(swHistory) :
           swHistory[i].strategy_code = t.code /\ swHistory[i].market = t.market

\* The recent outcomes of the pair that the last run found.
SwSamples(t) == AggregateRecentOutcomes(swLast.agg, t.code, t.market).sample_size

\* The change the last run computed for the pair is below 0.01.
SwBelowNoiseFloor(t) ==
    LET old_weight == IF SwStored(swLast.before, t) # 0 THEN SwStored(swLast.before, t)
                      ELSE DefaultWeight(t.code)
        new_weight == NewWeight(old_weight,
                                TargetWeight(DefaultWeight(t.code),
                                             AggregateRecentOutcomes(swLast.agg, t.code,
                                                                     t.market)),
                                swLast.result.alpha)
    IN  new_weight - old_weight < 100 /\ old_weight - new_weight < 100

\* C4: a rebalance run leaves a pair untouched - weight unchanged, no history
\* row - when the pair has fewer recent outcomes than the min_samples the run
\* was called with, or when the computed change is below 0.01.
C4_UntouchedBelowMinSamples ==
    swLast.calls > 0 =>
        \A k \in DOMAIN RebalanceTargets :
            (\/ SwSamples(RebalanceTargets[k]) < swLast.call.min_samples
             \/ SwBelowNoiseFloor(RebalanceTargets[k]))
                => ~SwTouched(RebalanceTargets[k])

\* What holds instead: the threshold is the min_samples the run reports,
\* max(3, min(min_samples or 8, 200)).
SwUntouchedBelowReportedMinSamples ==
    swLast.calls > 0 =>
        \A k \in DOMAIN RebalanceTargets :
            (\/ SwSamples(RebalanceTargets[k]) < swLast.result.min_samples
             \/ SwBelowNoiseFloor(RebalanceTargets[k]))
                => ~SwTouched(RebalanceTargets[k])


\* ------------------------------------------------------------------------
\* Price alerts: price_alert_engine.py, web/api/price_alerts.py
\* Times are in ticks; a minute and a day are a whole number of ticks.  A
\* time of 0 stands for None, a trigger_date of -1 for "".
\* ------------------------------------------------------------------------
TicksPerMinute == 2
MinutesPerDay == 2

\* _day_key(now)
DayKey(now) == now \div (TicksPerMinute * MinutesPerDay)

\* _minute_bucket(now)
MinuteBucket(now) == now \div TicksPerMinute

\* _op_eval(left, op, right); the right side of between is a pair
OpEval(left, op, right) ==
    CASE op \in {"between", "in"} ->
             /\ DOMAIN right = {"lo", "hi"}
             /\ right.lo <= left /\ left <= right.hi
      [] op = ">" -> left > right
      [] op = ">=" -> left >= right
      [] op = "<" -> left < right
      [] op = "<=" -> left <= right
      [] op \in {"=", "=="} -> left = right
      [] op \in {"!=", "<>"} -> left # right
      [] OTHER -> FALSE

\* _eval_condition(cond, quote, ...)[0] for the metrics a quote carries
EvalCondition(cond, quote) ==
    CASE cond.type = "price" -> OpEval(quote.current_price, cond.op, cond.value)
      [] cond.type = "change_pct" -> OpEval(quote.change_pct, cond.op, cond.value)
      [] OTHER -> FALSE

\* eval_rule(rule, quote).matched
EvalRule(rule, quote) ==
    LET items == rule.condition_group.items
        bools == [i \in DOMAIN items |-> EvalCondition(items[i], quote)]
    IN  IF items = <<>> THEN FALSE
        ELSE IF rule.condition_group.op = "or" THEN \E i \in DOMAIN bools : bools[i]
        ELSE \A i \in DOMAIN bools : bools[i]

\* The daily reset inside _can_trigger: applies once the rule is enabled, not
\* expired and not outside trading hours.
ReachesDailyReset(rule, now, bypass_market_hours, trading) ==
    /\ rule.enabled
    /\ ~(rule.expire_at # 0 /\ now > rule.expire_at)
    /\ ~(rule.market_hours_mode = "trading_only" /\ ~bypass_market_hours /\ ~trading)

DailyReset(rule, now) ==
    IF rule.trigger_date # DayKey(now)
    THEN [rule EXCEPT !.trigger_date = DayKey(now), !.trigger_count_today = 0]
    ELSE rule

\* A gate that lets every rule through.
NoGate(rule, now) == "ok"

\* max_triggers_per_day, after the daily reset
DailyLimitGate(rule, now) ==
    IF /\ Max(0, rule.max_triggers_per_day) > 0
       /\ DailyReset(rule, now).trigger_count_today >= rule.max_triggers_per_day
    THEN "daily_limit" ELSE "ok"

\* repeat_mode "once" with a prior trigger
OnceGate(rule, now) ==
    IF rule.repeat_mode = "once" /\ rule.last_trigger_at # 0 THEN "once_triggered" ELSE "ok"

\* cooldown_minutes since the last trigger
CooldownGate(rule, now) ==
    IF /\ rule.last_trigger_at # 0
       /\ now - rule.last_trigger_at < Max(0, rule.cooldown_minutes) * TicksPerMinute
    THEN "cooldown" ELSE "ok"

\* _can_trigger(rule, now, bypass_market_hours)[1]; "ok" when it may trigger
CanTrigger(rule, now, bypass_market_hours, trading) ==
    IF ~rule.enabled THEN "disabled"
    ELSE IF rule.expire_at # 0 /\ now > rule.expire_at THEN "expired"
    ELSE IF rule.market_hours_mode = "trading_only" /\ ~bypass_market_hours /\ ~trading
         THEN "non_trading"
    ELSE IF DailyLimitGate(rule, now) # "ok" THEN DailyLimitGate(rule, now)
    ELSE IF OnceGate(rule, now) # "ok" THEN OnceGate(rule, now)
    ELSE CooldownGate(rule, now)

\* The flush of a Hit ignores the rows that exist.
NeverDuplicate(hits, rule_id, now) == FALSE

\* uq_price_alert_rule_bucket: the flush of a Hit for (rule_id, bucket of now)
\* is rejected when the table has a row with that key.
IsDuplicateHit(hits, rule_id, now) ==
    \E h \in hits : h.rule_id = rule_id /\ h.trigger_bucket = MinuteBucket(now)


\* Inputs of the alert model.
MaxClock == 5
MaxScans == 3
AlRuleIds == {1, 2}
AlToggledIds == {1}         \* the rules the user switches off and on
Scanners == {"scheduler", "manual"}

AlCondition(type, op, value) == [type |-> type, op |-> op, value |-> value]

AlConfig(repeat_mode, cooldown_minutes, max_triggers_per_day, market_hours_mode, expire_at) ==
    [repeat_mode |-> repeat_mode, cooldown_minutes |-> cooldown_minutes,
     max_triggers_per_day |-> max_triggers_per_day,
     market_hours_mode |-> market_hours_mode, expire_at |-> expire_at]

\* The gating parameters of rule 1.
AlConfigs ==
    { AlConfig("once", 0, 1, "always", 0),
      AlConfig("once", 1, 3, "trading_only", 0),
      AlConfig("repeat", 2, 1, "always", 5),
      AlConfig("repeat", 0, 1, "always", 0) }

\* create_alert_rule: a new row, enabled, never triggered
AlNewRule(id, config, condition_group) ==
    [id |-> id, enabled |-> TRUE, condition_group |-> condition_group,
     market_hours_mode |-> config.market_hours_mode,
     cooldown_minutes |-> Max(0, config.cooldown_minutes),
     max_triggers_per_day |-> Max(0, config.max_triggers_per_day),
     repeat_mode |-> config.repeat_mode, expire_at |-> config.expire_at,
     last_trigger_at |-> 0, last_trigger_price |-> 0,
     trigger_count_today |-> 0, trigger_date |-> -1]

AlQuote(current_price, change_pct) == [current_price |-> current_price, change_pct |-> change_pct]

NoQuote == [current_price |-> 0, change_pct |-> 0]

AlScanInput(dry_run, bypass_market_hours, only_rule_id, quote, trading, notify_ok) ==
    [dry_run |-> dry_run, bypass_market_hours |-> bypass_market_hours,
     only_rule_id |-> only_rule_id, quote |-> quote, trading |-> trading,
     notify_ok |-> notify_ok]

\* The arguments of a scan, the quote of the stock, whether its market is
\* trading and whether the notifier succeeds: scheduled scans, a manual scan,
\* a rule test.
AlScanInputs ==
    { AlScanInput(FALSE, FALSE, 0, AlQuote(110, 3), TRUE, TRUE),
      AlScanInput(FALSE, FALSE, 0, AlQuote(110, 3), FALSE, FALSE),
      AlScanInput(FALSE, FALSE, 0, AlQuote(90, -3), TRUE, TRUE),
      AlScanInput(FALSE, FALSE, 0, NoQuote, TRUE, TRUE),
      AlScanInput(TRUE, TRUE, 1, AlQuote(110, 3), FALSE, TRUE) }

AlIdleScan ==
    [phase |-> "idle", now |-> 0,
     input |-> AlScanInput(FALSE, FALSE, 0, NoQuote, FALSE, FALSE),
     queue |-> <<>>, snapshot |-> <<>>, expired |-> FALSE, reset |-> {},
     current |-> 0, items |-> <<>>, total_rules |-> 0, triggered |-> 0, skipped |-> 0]

AlIdle ==
    /\ alRules = <<>>
    /\ alHits = {}
    /\ alNotified = {}
    /\ alClock = 1
    /\ alCount = 0
    /\ alScan = [s \in Scanners |-> AlIdleScan]

\* Two rules on one stock: rule 1 fires above a price, rule 2 on a move in
\* either direction.
AlInit(configs) ==
    /\ \E config \in configs :
           alRules = [id \in AlRuleIds |->
               IF id = 1
               THEN AlNewRule(1, config,
                              [op |-> "and", items |-> <<AlCondition("price", ">", 100)>>])
               ELSE AlNewRule(2, AlConfig("repeat", 0, 0, "always", 0),
                              [op |-> "or",
                               items |-> <<AlCondition("change_pct", ">=", 2),
                                           AlCondition("change_pct", "between",
                                                       [lo |-> -5, hi |-> -2])>>])]
    /\ alHits = {}
    /\ alNotified = {}
    /\ alClock = 1
    /\ alCount = 0
    /\ alScan = [s \in Scanners |-> AlIdleScan]


\* The rule object the loop works on: the row as the query loaded it, or, once
\* a commit or rollback has expired the session's objects, the row as it is in
\* the table when the loop reaches it.
AlView(s) ==
    LET id == Head(alScan[s].queue)
    IN  IF alScan[s].expired THEN alRules[id] ELSE alScan[s].snapshot[id]

AlItem(rule_id, status, reason) == [rule_id |-> rule_id, status |-> status, reason |-> reason]

\* Counts nothing and reports nothing.
NoTally(scan, item) == scan

\* triggered += 1 or skipped += 1, and items.append(...): would_trigger and
\* triggered count as triggered, every other status as skipped.
Tally(scan, item) ==
    [scan EXCEPT
        !.items = Append(@, item),
        !.triggered = IF item.status \in {"would_trigger", "triggered"} THEN @ + 1 ELSE @,
        !.skipped = IF item.status \in {"no_stock", "no_quote", "gated", "not_matched",
                                        "duplicated"} THEN @ + 1 ELSE @]

\* Applies the pending daily resets to the stored rows.
CommitOnClose(rules, reset, now) ==
    [id \in DOMAIN rules |->
        IF id \in reset THEN [rules[id] EXCEPT !.trigger_date = DayKey(now),
                                               !.trigger_count_today = 0]
        ELSE rules[id]]

\* finally: db.close(): what the session has not committed is dropped.
CloseSession(rules, reset, now) == rules

\* The loop moves on to the next rule with one more report item; after the
\* last rule the scan returns and its session is closed.
AlAdvance(scan, item) ==
    LET rest == Tail(scan.queue)
    IN  [Tally(scan, item) EXCEPT
            !.queue = rest,
            !.current = 0,
            !.phase = IF rest = <<>> THEN "idle" ELSE "rules",
            !.reset = IF rest = <<>> THEN {} ELSE @,
            !.snapshot = IF rest = <<>> THEN <<>> ELSE @,
            !.expired = IF rest = <<>> THEN FALSE ELSE @,
            !.now = IF rest = <<>> THEN 0 ELSE @]

\* scan_once(only_rule_id, dry_run, bypass_market_hours) up to the loop: now,
\* the enabled rules in id order, the quotes.
ScanStart(s, inputs) ==
    /\ alScan[s].phase = "idle"
    /\ alCount < MaxScans
    /\ alCount' = alCount + 1
    /\ \E input \in inputs :
         \E rules \in {{id \in AlRuleIds :
                          /\ alRules[id].enabled
                          /\ (input.only_rule_id = 0 \/ id = input.only_rule_id)}} :
            alScan' = [alScan EXCEPT ![s] =
                IF rules = {}
                THEN AlIdleScan
                ELSE [AlIdleScan EXCEPT
                         !.phase = "rules", !.now = alClock, !.input = input,
                         !.total_rules = Cardinality(rules),
                         !.queue = [i \in 1..Cardinality(rules) |->
                                      CHOOSE id \in rules :
                                          Cardinality({x \in rules : x < id}) = i - 1],
                         !.snapshot = alRules]]
    /\ UNCHANGED <<alRules, alHits, alNotified, alClock>>
    /\ UNCHANGED <<pcVars, ecVars, swVars, sgVars, ocVars, svcVars>>

\* The loop body for the next rule, up to and including db.flush().
ScanRule(s) ==
    /\ alScan[s].phase = "rules"
    /\ \E scan \in {alScan[s]}, rule \in {AlView(s)} :
         \E reason \in {CanTrigger(rule, scan.now, scan.input.bypass_market_hours,
                                   scan.input.trading)} :
          LET resets == ReachesDailyReset(rule, scan.now, scan.input.bypass_market_hours,
                                          scan.input.trading)
                        /\ rule.trigger_date # DayKey(scan.now)
              dirty == [scan EXCEPT !.reset = IF resets THEN @ \cup {rule.id} ELSE @]
              \* continue; after the last rule the scan returns through
              \* finally: db.close()
              Continue(sc, item) ==
                  /\ alScan' = [alScan EXCEPT ![s] = AlAdvance(sc, item)]
                  /\ alRules' = IF Tail(sc.queue) = <<>>
                                THEN CloseSession(alRules, sc.reset, sc.now) ELSE alRules
                  /\ UNCHANGED alHits
          IN  IF scan.input.quote = NoQuote
              THEN Continue(scan, AlItem(rule.id, "no_quote", ""))
              ELSE IF reason # "ok"
              THEN Continue(dirty, AlItem(rule.id, "gated", reason))
              ELSE IF ~EvalRule(rule, scan.input.quote)
              THEN Continue(dirty, AlItem(rule.id, "not_matched", ""))
              ELSE IF scan.input.dry_run
              THEN Continue(dirty, AlItem(rule.id, "would_trigger", ""))
              ELSE IF IsDuplicateHit(alHits, rule.id, scan.now)
              THEN \* db.rollback(): the pending changes are gone, the objects expired
                   Continue([scan EXCEPT !.reset = {}, !.expired = TRUE],
                            AlItem(rule.id, "duplicated", ""))
              ELSE /\ alHits' = alHits \cup
                                  {[rule_id |-> rule.id,
                                    trigger_time |-> scan.now,
                                    trigger_bucket |-> MinuteBucket(scan.now),
                                    notify_success |-> FALSE]}
                   /\ alScan' = [alScan EXCEPT ![s] =
                                    [dirty EXCEPT !.phase = "notify",
                                                  !.current = DailyReset(rule, scan.now)]]
                   /\ UNCHANGED alRules
    /\ UNCHANGED <<alNotified, alClock, alCount>>
    /\ UNCHANGED <<pcVars, ecVars, swVars, sgVars, ocVars, svcVars>>

\* Leaves the rule row as it is.
NoBookkeeping(row, rule, now, price) == row

\* The bookkeeping of a trigger, lines 397-402: rule is the object of the
\* session after the gating check, row the stored row it is written to.
RecordTrigger(row, rule, now, price) ==
    [row EXCEPT
        !.last_trigger_at = now,
        !.last_trigger_price = price,
        !.trigger_count_today = rule.trigger_count_today + 1,
        !.trigger_date = DayKey(now),
        !.enabled = IF rule.repeat_mode = "once" THEN FALSE ELSE @]

\* _send_notify returns; the Hit gets the result, the rule its bookkeeping,
\* and db.commit() writes them with the pending daily resets.
ScanNotify(s) ==
    /\ alScan[s].phase = "notify"
    /\ \E scan \in {alScan[s]} :
         \E rule \in {scan.current} :
            /\ alNotified' = alNotified \cup
                   {[rule_id |-> rule.id, now |-> scan.now, scanner |-> s]}
            /\ alHits' = {IF h.rule_id = rule.id /\ h.trigger_bucket = MinuteBucket(scan.now)
                          THEN [h EXCEPT !.notify_success = scan.input.notify_ok] ELSE h :
                          h \in alHits}
            /\ alRules' = [id \in AlRuleIds |->
                   IF id = rule.id
                   THEN RecordTrigger(alRules[id], rule, scan.now,
                                      scan.input.quote.current_price)
                   ELSE IF id \in scan.reset
                   THEN [alRules[id] EXCEPT !.trigger_date = DayKey(scan.now),
                                            !.trigger_count_today = 0]
                   ELSE alRules[id]]
            /\ alScan' = [alScan EXCEPT ![s] =
                   AlAdvance([scan EXCEPT !.reset = {}, !.expired = TRUE],
                             AlItem(rule.id, "triggered", ""))]
    /\ UNCHANGED <<alClock, alCount>>
    /\ UNCHANGED <<pcVars, ecVars, swVars, sgVars, ocVars, svcVars>>

\* The report of a scan that has returned is with its caller.
AlReportsTaken ==
    [s \in Scanners |-> IF alScan[s].phase = "idle" THEN AlIdleScan ELSE alScan[s]]

\* toggle_alert_rule(rule_id, enabled)
ToggleAlertRule(rule_id, enabled) ==
    /\ alRules[rule_id].enabled # enabled
    /\ alRules' = [alRules EXCEPT ![rule_id].enabled = enabled]
    /\ alScan' = AlReportsTaken
    /\ UNCHANGED <<alHits, alNotified, alClock, alCount>>
    /\ UNCHANGED <<pcVars, ecVars, swVars, sgVars, ocVars, svcVars>>

\* Time passes.
AlTick ==
    /\ alClock < MaxClock
    /\ alClock' = alClock + 1
    /\ alScan' = AlReportsTaken
    /\ UNCHANGED <<alRules, alHits, alNotified, alCount>>
    /\ UNCHANGED <<pcVars, ecVars, swVars, sgVars, ocVars, svcVars>>

\* No scan is in progress.
AlAllIdle == \A s \in Scanners : alScan[s].phase = "idle"

\* A toggle between two scans.
ToggleBetweenScans == AlAllIdle /\ \E rule_id \in AlToggledIds, enabled \in BOOLEAN : ToggleAlertRule(rule_id, enabled)

\* Time passes between two scans.
TickBetweenScans == AlAllIdle /\ AlTick

\* Scans one after another, each finished before the next one starts and
\* before the user acts again.
AlNext ==
    \/ ScanStart("scheduler", AlScanInputs)
    \/ ScanRule("scheduler")
    \/ ScanNotify("scheduler")
    \/ ToggleBetweenScans
    \/ TickBetweenScans

\* The rules and the scans of the overlapping runs: the quote matches rule 1
\* and rule 2, or rule 2 only.
AlConcurrentConfigs == {AlConfig("once", 0, 1, "always", 0), AlConfig("repeat", 0, 2, "always", 0)}

AlConcurrentInputs ==
    { AlScanInput(FALSE, FALSE, 0, AlQuote(110, 3), TRUE, TRUE),
      AlScanInput(FALSE, FALSE, 0, AlQuote(90, -3), TRUE, TRUE) }

\* Scans that overlap: the scheduler's and one requested by hand.
AlConcurrentNext ==
    \/ \E s \in Scanners : ScanStart(s, AlConcurrentInputs)
    \/ \E s \in Scanners : ScanRule(s)
    \/ \E s \in Scanners : ScanNotify(s)
    \/ AlTick


\* ------------------------------------------------------------------------
\* Claims about the alert engine
\* ------------------------------------------------------------------------
\* The step is the loop body of scan s for the rule at the head of its queue.
AlStepsRule(s) == alScan[s].phase = "rules" /\ alScan'[s] # alScan[s]

\* The stored row of the rule scan s is about to look at.
AlRuleAt(s) == alRules[Head(alScan[s].queue)]

\* The report item the step of scan s has added.
AlNewItem(s) == alScan'[s].items[Len(alScan'[s].items)]

\* The step of scan s has added no Hit and does not go on to notify.
AlNoTrigger(s) == alHits' = alHits /\ alNotified' = alNotified /\ alScan'[s].phase # "notify"

AlExpired(rule, now) == rule.expire_at # 0 /\ rule.expire_at < now

AlInCooldown(rule, now) ==
    /\ rule.last_trigger_at # 0
    /\ now - rule.last_trigger_at < rule.cooldown_minutes * TicksPerMinute

\* Disabled, expired or inside the cooldown window at the scan time.
AlBlocked(rule, now) == ~rule.enabled \/ AlExpired(rule, now) \/ AlInCooldown(rule, now)

\* The Hits of a rule on a day.
AlHitsOn(rule_id, day) == {h \in alHits : h.rule_id = rule_id /\ DayKey(h.trigger_time) = day}

\* A gate that comes before the cooldown check stops the rule.
AlStoppedEarlier(rule, scan) ==
    \/ scan.input.quote = NoQuote
    \/ rule.market_hours_mode = "trading_only" /\ ~scan.input.bypass_market_hours
       /\ ~scan.input.trading
    \/ rule.max_triggers_per_day > 0
       /\ Cardinality(AlHitsOn(rule.id, DayKey(scan.now))) >= rule.max_triggers_per_day
    \/ rule.repeat_mode = "once" /\ rule.last_trigger_at # 0

\* The trigger bookkeeping of a rule row.
AlTriggerFields(rule) ==
    <<rule.last_trigger_at, rule.last_trigger_price, rule.enabled>>

AlDailyFields(rule) == <<rule.trigger_count_today, rule.trigger_date>>

\* C7 as stated: in any scan a rule that is disabled, expired or inside its
\* cooldown window gets no Hit, no notification and no bookkeeping update,
\* and a rule inside its cooldown window is reported gated, reason cooldown.
C7_BlockedRuleCooldownReported ==
    [][\A s \in Scanners :
        /\ (AlStepsRule(s) /\ AlBlocked(AlRuleAt(s), alScan[s].now)) =>
               /\ AlNoTrigger(s)
               /\ AlInCooldown(AlRuleAt(s), alScan[s].now) =>
                      AlNewItem(s) = AlItem(AlRuleAt(s).id, "gated", "cooldown")
        /\ alScan[s].phase # "idle" =>
               \A id \in AlRuleIds :
                   AlBlocked(alRules[id], alScan[s].now) =>
                       /\ AlTriggerFields(alRules'[id]) = AlTriggerFields(alRules[id])
                       /\ AlDailyFields(alRules'[id]) = AlDailyFields(alRules[id])]_vars

\* C7, what holds: such a rule gets no Hit and no notification, its
\* last_trigger_at, last_trigger_price and enabled stay as they are, and its
\* daily counter changes only by the reset to 0 for the scan's day; the scan
\* reports it as no_quote or gated, and as gated with reason cooldown when it
\* is inside its cooldown window and nothing checked earlier (quote, expiry,
\* trading hours, daily limit, repeat mode once) stops it.
C7_BlockedRuleNeverTriggers ==
    [][\A s \in Scanners :
        /\ (AlStepsRule(s) /\ AlBlocked(AlRuleAt(s), alScan[s].now)) =>
               /\ AlNoTrigger(s)
               /\ AlNewItem(s).rule_id = AlRuleAt(s).id
               /\ AlNewItem(s).status \in {"no_quote", "gated"}
               /\ (/\ AlInCooldown(AlRuleAt(s), alScan[s].now)
                   /\ ~AlExpired(AlRuleAt(s), alScan[s].now)
                   /\ ~AlStoppedEarlier(AlRuleAt(s), alScan[s])) =>
                      AlNewItem(s) = AlItem(AlRuleAt(s).id, "gated", "cooldown")
        /\ alScan[s].phase # "idle" =>
               \A id \in AlRuleIds :
                   AlBlocked(alRules[id], alScan[s].now) =>
                       /\ AlTriggerFields(alRules'[id]) = AlTriggerFields(alRules[id])
                       /\ \/ AlDailyFields(alRules'[id]) = AlDailyFields(alRules[id])
                          \/ AlDailyFields(alRules'[id]) = <<0, DayKey(alScan[s].now)>>]_vars

\* A scan has reported rule 1 as gated, reason cooldown, with a quote that
\* matches its condition.
C7_Witness ==
    /\ alScan["scheduler"].input.quote = AlQuote(110, 3)
    /\ \E i \in DOMAIN alScan["scheduler"].items :
           alScan["scheduler"].items[i] = AlItem(1, "gated", "cooldown")


\* The Hit table already holds the key the scan would insert.
AlKeyTaken(rule_id, now) ==
    \E h \in alHits : h.rule_id = rule_id /\ h.trigger_bucket = MinuteBucket(now)

\* The rule as scan s sees it passes every gate, its condition matches and
\* the scan is not a dry run: the loop body reaches the Hit insert.
AlReachesInsert(s) ==
    /\ alScan[s].input.quote # NoQuote
    /\ CanTrigger(AlView(s), alScan[s].now, alScan[s].input.bypass_market_hours,
                  alScan[s].input.trading) = "ok"
    /\ EvalRule(AlView(s), alScan[s].input.quote)
    /\ ~alScan[s].input.dry_run

\* C8: under any interleaving of concurrent scans there is at most one Hit
\* and at most one notification per (rule_id, minute bucket); the scan whose
\* insert meets a taken key adds no Hit, sends no notification, leaves every
\* rule row as it is, also at its later commits, and reports "duplicated".
C8_OneHitPerMinuteBucket ==
    /\ [](/\ \A h1 \in alHits, h2 \in alHits :
                (h1.rule_id = h2.rule_id /\ h1.trigger_bucket = h2.trigger_bucket) => h1 = h2
          /\ \A n1 \in alNotified, n2 \in alNotified :
                (n1.rule_id = n2.rule_id /\ MinuteBucket(n1.now) = MinuteBucket(n2.now))
                    => n1 = n2)
    /\ [][\A s \in Scanners :
            (AlStepsRule(s) /\ AlKeyTaken(AlRuleAt(s).id, alScan[s].now)) =>
                   /\ AlNoTrigger(s)
                   /\ alRules' = alRules
                   /\ AlReachesInsert(s) =>
                          /\ AlNewItem(s) = AlItem(AlRuleAt(s).id, "duplicated", "")
                          /\ alScan'[s].reset = {}]_vars

\* A scan has reported rule 1 as duplicated while the scan that took the key
\* is still waiting for its notification to be sent.
C8_Witness ==
    \E s \in Scanners, t \in Scanners :
        /\ s # t
        /\ alScan[t].phase = "notify"
        /\ alScan[t].current.id = 1
        /\ \E i \in DOMAIN alScan[s].items :
               alScan[s].items[i] = AlItem(1, "duplicated", "")

\* The rule has triggered before.
AlHasHit(rule_id) == \E h \in alHits : h.rule_id = rule_id

AlHitsOf(rule_id) == {h \in alHits : h.rule_id = rule_id}

\* The step is the end of the loop body of scan s for a rule that triggered.
AlStepsNotify(s) == alScan[s].phase = "notify" /\ alScan'[s] # alScan[s]

\* C9 as stated: a rule with repeat_mode "once" has at most one Hit; its
\* trigger disables it, and every later scan that looks at it, re-enabled,
\* skips it with reason once_triggered.
C9_OnceRuleSkippedAsOnceTriggered ==
    /\ [](\A id \in AlRuleIds :
             alRules[id].repeat_mode = "once" => Cardinality(AlHitsOf(id)) <= 1)
    /\ [][\A s \in Scanners :
            /\ (AlStepsNotify(s) /\ alScan[s].current.repeat_mode = "once") =>
                   ~alRules'[alScan[s].current.id].enabled
            /\ (AlStepsRule(s) /\ AlRuleAt(s).repeat_mode = "once"
                               /\ AlHasHit(AlRuleAt(s).id)) =>
                   /\ AlNoTrigger(s)
                   /\ AlNewItem(s) = AlItem(AlRuleAt(s).id, "gated", "once_triggered")]_vars

\* A gate that comes before the repeat-mode check stops the rule.
AlStoppedBeforeOnce(rule, scan) ==
    \/ scan.input.quote = NoQuote
    \/ AlExpired(rule, scan.now)
    \/ rule.market_hours_mode = "trading_only" /\ ~scan.input.bypass_market_hours
       /\ ~scan.input.trading
    \/ rule.max_triggers_per_day > 0
       /\ Cardinality(AlHitsOn(rule.id, DayKey(scan.now))) >= rule.max_triggers_per_day

\* C9, what holds: a rule with repeat_mode "once" has at most one Hit; its
\* trigger disables it, and every later scan that looks at it, re-enabled,
\* adds no Hit and sends no notification: it reports the rule as no_quote
\* or gated, with reason once_triggered unless something checked earlier
\* (quote, expiry, trading hours, daily limit) stops the rule first.
C9_OnceRuleTriggersOnce ==
    /\ [](\A id \in AlRuleIds :
             alRules[id].repeat_mode = "once" => Cardinality(AlHitsOf(id)) <= 1)
    /\ [][\A s \in Scanners :
            /\ (AlStepsNotify(s) /\ alScan[s].current.repeat_mode = "once") =>
                   ~alRules'[alScan[s].current.id].enabled
            /\ (AlStepsRule(s) /\ AlRuleAt(s).repeat_mode = "once"
                               /\ AlHasHit(AlRuleAt(s).id)) =>
                   /\ AlNoTrigger(s)
                   /\ AlNewItem(s).rule_id = AlRuleAt(s).id
                   /\ AlNewItem(s).status \in {"no_quote", "gated"}
                   /\ ~AlStoppedBeforeOnce(AlRuleAt(s), alScan[s]) =>
                          AlNewItem(s) = AlItem(AlRuleAt(s).id, "gated", "once_triggered")]_vars

\* Rule 1, repeat_mode "once", has its Hit, is enabled again, and a scan
\* with a matching quote has reported it as gated, reason once_triggered.
C9_Witness ==
    /\ alRules[1].repeat_mode = "once"
    /\ alRules[1].enabled
    /\ AlHasHit(1)
    /\ alScan["scheduler"].input.quote = AlQuote(110, 3)
    /\ \E i \in DOMAIN alScan["scheduler"].items :
           alScan["scheduler"].items[i] = AlItem(1, "gated", "once_triggered")

AlIsTest(s) ==
    /\ alScan[s].input.dry_run
    /\ alScan[s].input.bypass_market_hours
    /\ alScan[s].input.only_rule_id = AlRuleAt(s).id

\* The rule is enabled, has a quote that matches its condition group, and
\* neither expiry, the daily limit nor repeat mode once stops it.
AlTestable(s) ==
    /\ AlRuleAt(s).enabled
    /\ alScan[s].input.quote # NoQuote
    /\ EvalRule(AlRuleAt(s), alScan[s].input.quote)
    /\ ~AlExpired(AlRuleAt(s), alScan[s].now)
    /\ DailyLimitGate(DailyReset(AlRuleAt(s), alScan[s].now), alScan[s].now) = "ok"
    /\ OnceGate(AlRuleAt(s), alScan[s].now) = "ok"

\* C11 as stated: test_alert_rule reports would_trigger for an enabled rule
\* whose condition matches, also outside trading hours and inside the rule's
\* cooldown window.
C11_TestBypassesCooldown ==
    [][\A s \in Scanners :
        (AlStepsRule(s) /\ AlIsTest(s) /\ AlTestable(s)) =>
            AlNewItem(s) = AlItem(AlRuleAt(s).id, "would_trigger", "")]_vars

\* test_alert_rule bypasses the trading hours only: outside the cooldown
\* window it reports would_trigger whether the market trades or not, inside
\* the window it reports the rule as gated, reason cooldown, and it never
\* adds a Hit, sends a notification or changes a rule row.
AlTestBypassesTradingHoursOnly ==
    [][\A s \in Scanners :
        (AlStepsRule(s) /\ AlIsTest(s)) =>
            /\ AlNoTrigger(s)
            /\ alRules' = alRules
            /\ AlTestable(s) =>
                   AlNewItem(s) = IF AlInCooldown(AlRuleAt(s), alScan[s].now)
                                  THEN AlItem(AlRuleAt(s).id, "gated", "cooldown")
                                  ELSE AlItem(AlRuleAt(s).id, "would_trigger", "")]_vars


\* The Hit of a rule in the minute bucket of a time.
AlHitAt(hits, rule_id, now) ==
    {h \in hits : h.rule_id = rule_id /\ h.trigger_bucket = MinuteBucket(now)}

AlItemIds(items) == [i \in DOMAIN items |-> items[i].rule_id]

AlCountOf(items, statuses) == Cardinality({i \in DOMAIN items : items[i].status \in statuses})

\* The enabled rules in the scope of a scan, in the order of the query.
AlInScope(only_rule_id) ==
    LET rules == {id \in AlRuleIds :
                     alRules[id].enabled /\ (only_rule_id = 0 \/ id = only_rule_id)}
    IN  [i \in 1..Cardinality(rules) |->
            CHOOSE id \in rules : Cardinality({x \in rules : x < id}) = i - 1]

\* C27: every report of scan_once accounts for each scanned rule exactly
\* once: items holds one entry per enabled rule in scope and triggered +
\* skipped = total_rules, triggered counting the would_trigger and triggered
\* items and skipped all the others.
C27_ReportAccountsForEveryRule ==
    /\ [](\A s \in Scanners :
            LET scan == alScan[s]
            IN  /\ Len(scan.items) + Len(scan.queue) = scan.total_rules
                /\ scan.triggered + scan.skipped = Len(scan.items)
                /\ scan.triggered = AlCountOf(scan.items, {"would_trigger", "triggered"})
                /\ scan.skipped = AlCountOf(scan.items, {"no_stock", "no_quote", "gated",
                                                         "not_matched", "duplicated"})
                /\ scan.phase = "idle" => scan.queue = <<>>
                /\ \A i, j \in DOMAIN scan.items :
                       scan.items[i].rule_id = scan.items[j].rule_id => i = j)
    /\ [][\A s \in Scanners :
            /\ (alScan[s].phase = "idle" /\ alScan'[s].phase # "idle") =>
                   alScan'[s].queue = AlInScope(alScan'[s].input.only_rule_id)
            /\ (alScan[s].phase # "idle" /\ alScan'[s].phase # "idle") =>
                   AlItemIds(alScan'[s].items) \o alScan'[s].queue
                       = AlItemIds(alScan[s].items) \o alScan[s].queue
            /\ (alScan[s].phase # "idle" /\ alScan'[s].phase = "idle") =>
                   AlItemIds(alScan'[s].items) = AlItemIds(alScan[s].items) \o alScan[s].queue]_vars

\* A report of two rules, one triggered and one skipped.
C27_Witness ==
    \E s \in Scanners :
        /\ alScan[s].phase = "idle"
        /\ alScan[s].total_rules = 2
        /\ alScan[s].triggered = 1
        /\ alScan[s].skipped = 1
        /\ Len(alScan[s].items) = 2

\* The step belongs to scan s, a dry run.
AlStepsDryRun(s) ==
    alScan[s].phase # "idle" /\ alScan[s].input.dry_run /\ alScan'[s] # alScan[s]

\* C30: a dry-run scan leaves the store as it is: it inserts no Hit, sends
\* no notification and persists no change to a rule row, the daily reset
\* that the gating check makes in memory included; it reports every match
\* as would_trigger.
C30_DryRunLeavesStore ==
    [][\A s \in Scanners :
        AlStepsDryRun(s) =>
            /\ alHits' = alHits
            /\ alNotified' = alNotified
            /\ alRules' = alRules
            /\ alScan'[s].phase # "notify"
            /\ AlNewItem(s).status # "triggered"]_vars

\* A dry run at the start of a new day has reported rule 1 as
\* would_trigger, which took the daily reset in memory, and the stored row
\* still has the count and the date of the day before.
C30_Witness ==
    \E s \in Scanners :
        /\ alScan[s].phase = "idle"
        /\ alScan[s].input.dry_run
        /\ alScan[s].items = <<AlItem(1, "would_trigger", "")>>
        /\ alRules[1].trigger_count_today = 1
        /\ alRules[1].trigger_date # DayKey(alClock)

\* The rule of the overlapping scans with a cooldown: two minutes, no daily
\* limit.
AlCooldownConfigs == {AlConfig("repeat", 2, 0, "always", 0)}

\* C26: for a rule with cooldown_minutes = c > 0, any two Hits of the rule
\* have trigger times at least c minutes apart, under every interleaving of
\* scheduled scans with manually triggered scans.
C26_HitsCooldownApart ==
    \A id \in AlRuleIds : \A h1 \in AlHitsOf(id), h2 \in AlHitsOf(id) :
        (alRules[id].cooldown_minutes > 0 /\ h1 # h2 /\ h1.trigger_time <= h2.trigger_time) =>
            h2.trigger_time - h1.trigger_time >= alRules[id].cooldown_minutes * TicksPerMinute

\* ------------------------------------------------------------------------
\* Scheduled jobs: the price-alert scan, the maintenance evaluation, the
\* maintenance cleanup (price_alert_scheduler.py, context_scheduler.py)
\* ------------------------------------------------------------------------
Jobs == {"price_alert_scan", "context_maintenance_evaluate", "context_maintenance_cleanup"}

\* The awaits in the job body: the scan awaits ENGINE.scan_once, the
\* evaluation four to_thread calls in a row, the cleanup one.
JobStages(job) == IF job = "context_maintenance_evaluate" THEN 4 ELSE 1

MaxTicks == 3               \* ticks per job
MaxJobTicks == 5            \* ticks of all jobs together

\* A flag that never reads as set.
NeverBusy(flag) == FALSE

\* if self._running: return
FlagBusy(flag) == flag

\* A flag that stays set when the body raised.
FlagKeptOnFailure(failed) == failed

\* finally: self._running = False
FlagAfterRun(failed) == FALSE

JbPending == [pc |-> "pending", stage |-> 0, failed |-> FALSE]

JbIdle ==
    /\ jbFlag = [job \in Jobs |-> FALSE]
    /\ jbTick = [job \in Jobs |-> [t \in 1..MaxTicks |-> JbPending]]

JbFired == Cardinality({<<job, t>> \in Jobs \X (1..MaxTicks) : jbTick[job][t].pc # "pending"})

\* The scheduler calls the job coroutine; up to its first await it runs
\* without interruption: the flag is tested and set in one step.
JobTick(job) ==
    /\ JbFired < MaxJobTicks
    /\ \E t \in 1..MaxTicks :
         /\ jbTick[job][t].pc = "pending"
         /\ \A u \in 1..(t - 1) : jbTick[job][u].pc # "pending"
         /\ IF FlagBusy(jbFlag[job])
            THEN /\ jbTick' = [jbTick EXCEPT ![job][t].pc = "skipped"]
                 /\ UNCHANGED jbFlag
            ELSE /\ jbTick' = [jbTick EXCEPT ![job][t] =
                                  [pc |-> "body", stage |-> 1, failed |-> FALSE]]
                 /\ jbFlag' = [jbFlag EXCEPT ![job] = TRUE]
    /\ UNCHANGED notJb

\* An awaited call of the body returns and the body goes on to the next one.
JobAwait(job) ==
    /\ \E t \in 1..MaxTicks :
         /\ jbTick[job][t].pc = "body"
         /\ jbTick[job][t].stage < JobStages(job)
         /\ jbTick' = [jbTick EXCEPT ![job][t].stage = @ + 1]
    /\ UNCHANGED jbFlag
    /\ UNCHANGED notJb

\* The last awaited call returns: the result is logged, finally runs.
JobReturn(job) ==
    /\ \E t \in 1..MaxTicks :
         /\ jbTick[job][t].pc = "body"
         /\ jbTick[job][t].stage = JobStages(job)
         /\ jbTick' = [jbTick EXCEPT ![job][t].pc = "returned"]
         /\ jbFlag' = [jbFlag EXCEPT ![job] = FlagAfterRun(FALSE)]
    /\ UNCHANGED notJb

\* An awaited call raises: except logs the exception, finally runs.
JobRaise(job) ==
    /\ \E t \in 1..MaxTicks :
         /\ jbTick[job][t].pc = "body"
         /\ jbTick' = [jbTick EXCEPT ![job][t].pc = "returned", ![job][t].failed = TRUE]
         /\ jbFlag' = [jbFlag EXCEPT ![job] = FlagAfterRun(TRUE)]
    /\ UNCHANGED notJb

JbNext == \E job \in Jobs : JobTick(job) \/ JobAwait(job) \/ JobReturn(job) \/ JobRaise(job)

\* ------------------------------------------------------------------------
\* Claims about the scheduled jobs
\* ------------------------------------------------------------------------
JbActive(job) == {t \in 1..MaxTicks : jbTick[job][t].pc = "body"}

\* Tick t of the job fires in this step.
JbFires(job, t) == jbTick[job][t].pc = "pending" /\ jbTick'[job][t].pc # "pending"

\* C12: every scheduled job has at most one execution of its body active;
\* a tick that fires while a run of the same job is active returns at once
\* (the running body and the flag are as before), and a tick that has
\* returned that way never runs the body later.
C12_OneActiveRunPerJob ==
    /\ [](\A job \in Jobs : Cardinality(JbActive(job)) <= 1)
    /\ [][\A job \in Jobs : \A t \in 1..MaxTicks :
            /\ (JbFires(job, t) /\ JbActive(job) # {}) =>
                   /\ jbTick'[job][t] = [JbPending EXCEPT !.pc = "skipped"]
                   /\ \A u \in (1..MaxTicks) \ {t} : jbTick'[job][u] = jbTick[job][u]
                   /\ jbFlag' = jbFlag
            /\ jbTick[job][t].pc = "skipped" => jbTick'[job][t] = jbTick[job][t]]_vars

\* The second tick of the evaluation job was skipped while the first run
\* was past its first await; the third tick runs after the first has ended.
C12_Witness ==
    LET ticks == jbTick["context_maintenance_evaluate"]
    IN  /\ ticks[1].pc = "returned"
        /\ ticks[2] = [JbPending EXCEPT !.pc = "skipped"]
        /\ ticks[3].pc = "body"

\* C13: the reentrancy flag of a job is set exactly while a run of its body
\* is active, so it is false after every run, failed or not, and a tick
\* that fires when no run is active executes the body.
C13_FlagReleasedAfterRun ==
    /\ [](\A job \in Jobs : jbFlag[job] <=> JbActive(job) # {})
    /\ [][\A job \in Jobs : \A t \in 1..MaxTicks :
            /\ (jbTick[job][t].pc = "body" /\ jbTick'[job][t].pc = "returned") =>
                   ~jbFlag'[job]
            /\ (JbFires(job, t) /\ JbActive(job) = {}) =>
                   /\ jbTick'[job][t].pc = "body"
                   /\ jbFlag'[job]]_vars

\* A run of the evaluation job failed in its third call and the next tick
\* runs the body.
C13_Witness ==
    \E job \in Jobs :
        /\ jbTick[job][1].pc = "returned"
        /\ jbTick[job][1].failed
        /\ jbTick[job][1].stage = 3
        /\ jbTick[job][2].pc = "body"


\* The history rows the last run appended.
SwNewHistory == {i \in DOMAIN swHistory : i > swLast.history_before}

SwHistoryOf(t) ==
    {i \in SwNewHistory : swHistory[i].strategy_code = t.code /\ swHistory[i].market = t.market}

\* C16: after a rebalance run every pair whose stored weight the run has
\* changed has exactly one history row of that run, with the stored weight
\* as new_weight; every history row of the run belongs to a pair whose
\* stored weight is its new_weight; and a run that failed has changed
\* neither the weights nor the history.
C16_WeightsAndHistoryTogether ==
    swLast.calls > 0 =>
        /\ \A k \in DOMAIN RebalanceTargets :
             /\ SwStored(swRows, RebalanceTargets[k]) # SwStored(swLast.before, RebalanceTargets[k])
                    => Cardinality(SwHistoryOf(RebalanceTargets[k])) = 1
             /\ \A i \in SwHistoryOf(RebalanceTargets[k]) :
                    /\ swHistory[i].new_weight = SwStored(swRows, RebalanceTargets[k])
                    /\ swHistory[i].new_weight # SwStored(swLast.before, RebalanceTargets[k])
        /\ \A i \in SwNewHistory : \E k \in DOMAIN RebalanceTargets :
               i \in SwHistoryOf(RebalanceTargets[k])
        /\ swLast.result.error => (swRows = swLast.before /\ SwNewHistory = {})

\* The second run found 250 winning outcomes and failed; the first run had
\* changed weights.
C16_Witness ==
    /\ swLast.calls = 2
    /\ swLast.result.error
    /\ swLast.agg = {SwAgg("volume_breakout", "CN", 250, 250, 1200),
                     SwAgg("volume_breakout", "hk", 2, 0, -900)}
    /\ swLast.history_before > 0
    /\ swRows # {}


\* ------------------------------------------------------------------------
\* Claims about the signal refresh
\* ------------------------------------------------------------------------
\* The strategy codes that apply to a candidate.
SgApplicableCodes(c) ==
    LET codes == Range(c.strategy_tags)
                 \cup (IF c.candidate_source \in {"market_scan", "mixed"}
                       THEN {"market_scan"} ELSE {})
    IN  IF codes = {} THEN {"watchlist_agent"} ELSE codes

SgCandidatesOf(cands, d) == {c \in cands : c.snapshot_date = d}

SgRowsOf(rows, d) == {r \in rows : r.snapshot_date = d}

SgPairsOf(cands, d) ==
    UNION {{<<c.id, code>> : code \in SgApplicableCodes(c)} : c \in SgCandidatesOf(cands, d)}

SgKeysOf(rows, d) == {<<r.source_candidate_id, r.strategy_code>> : r \in SgRowsOf(rows, d)}

\* The step is a refresh_strategy_signals call that has completed for
\* snapshot d, which has candidates.
SgCompletedFor(d) ==
    /\ sgCalls' = sgCalls + 1
    /\ SgCandidatesOf(ecRows', d) # {}
    /\ \E out \in {SignalRefreshOutcome(ecRows', sgRows, d)} :
           ~out.raised /\ sgRows' = out.rows

CrStar(step) == [base |-> "*", a |-> 0, b |-> 0, step |-> step]

CrSingle(n) == [base |-> "n", a |-> n, b |-> n, step |-> 0]

CrRange(a, b, step) == [base |-> "a-b", a |-> a, b |-> b, step |-> step]

CrNumeric(tokens) == [alpha |-> FALSE, tokens |-> tokens]

CrAlpha == [alpha |-> TRUE, tokens |-> <<>>]     \* "mon-fri"

CrInterval(a, b) == [i \in 1..(b - a + 1) |-> a + i - 1]

\* values[::step]
Stride(values, step) ==
    [i \in 1..((Len(values) + step - 1) \div step) |-> values[(i - 1) * step + 1]]

\* if b == 7: a range that ends at Sunday; a is 0 when the token has 0 or 7
RangeTo7(a) == IF a = 0 THEN CrInterval(0, 6) ELSE CrInterval(a, 6) \o <<0>>

\* _expand_posix_cron_dow_token(token): the POSIX days (0 = Sunday) of one
\* token.
ExpandPosixCronDowToken(token) ==
    LET step == IF token.step = 0 THEN 1 ELSE token.step
        a == IF token.a = 7 THEN 0 ELSE token.a
        values ==
            IF token.base = "*" THEN CrInterval(0, 6)
            ELSE IF token.base = "a-b"
            THEN (IF token.b = 7 THEN RangeTo7(a)
                  ELSE IF a <= token.b THEN CrInterval(a, token.b)
                  ELSE CrInterval(a, 6) \o CrInterval(0, token.b))
            ELSE <<a>>
        InWeek(v) == 0 <= v /\ v <= 6
    IN  Range(Stride(SelectSeq(values, InWeek), step))

\* _compress_ints_to_cron_ranges(values): the sorted values as a list of
\* "n" and "a-b" tokens.
RECURSIVE CompressIntsToCronRanges(_)
CompressIntsToCronRanges(values) ==
    IF values = {} THEN <<>>
    ELSE LET start == CHOOSE v \in values : \A w \in values : v <= w
             prev == CHOOSE v \in values :
                         /\ \A w \in start..v : w \in values
                         /\ v + 1 \notin values
         IN  <<IF start = prev THEN CrSingle(start) ELSE CrRange(start, prev, 0)>>
             \o CompressIntsToCronRanges({v \in values : v > prev})

\* normalize_cron_day_of_week_field(day_of_week)
NormalizeCronDayOfWeekField(field) ==
    IF field.alpha \/ field.tokens = <<CrStar(0)>> THEN field
    ELSE IF field.tokens = <<>> THEN CrNumeric(<<CrStar(0)>>)
    ELSE LET posix_set == UNION {ExpandPosixCronDowToken(field.tokens[i]) :
                                 i \in DOMAIN field.tokens}
             aps_set == {IF d = 0 THEN 6 ELSE d - 1 : d \in posix_set}
         IN  IF aps_set = 0..6 THEN CrNumeric(<<CrStar(0)>>)
             ELSE CrNumeric(CompressIntsToCronRanges(aps_set))

\* CronTrigger(day_of_week=field): the weekdays the trigger fires on, with
\* APScheduler's numbers (0 = Monday ... 6 = Sunday); the trigger cannot be
\* built from a value above 6, a range that runs backwards, an empty field.
CronTriggerDays(field) ==
    LET TokenOk(t) == t.base = "*" \/ (t.a <= t.b /\ t.b <= 6)
        Days(t) ==
            LET step == IF t.step = 0 THEN 1 ELSE t.step
                first == IF t.base = "*" THEN 0 ELSE t.a
                last == IF t.base = "*" THEN 6 ELSE t.b
            IN  {d \in first..last : (d - first) % step = 0}
    IN  IF field.alpha THEN [error |-> FALSE, days |-> 0..4]
        ELSE IF field.tokens = <<>> \/ \E i \in DOMAIN field.tokens : ~TokenOk(field.tokens[i])
        THEN [error |-> TRUE, days |-> {}]
        ELSE [error |-> FALSE,
              days |-> UNION {Days(field.tokens[i]) : i \in DOMAIN field.tokens}]

\* preview_schedule("0 9 * * <field>", count): parse_schedule -> parse_cron
\* normalizes the field; the weekdays of the next runs for a count that
\* covers a week.
PreviewSchedule(field) == CronTriggerDays(NormalizeCronDayOfWeekField(field))

\* AgentScheduler.register(agent, "0 9 * * <field>"): the field goes to
\* CronTrigger as it is.
RegisterTrigger(field) == CronTriggerDays(field)


CrMaxStep == 3

CrMaxList == 2

CrTokens ==
    {CrStar(step) : step \in 0..CrMaxStep}
    \cup {CrSingle(n) : n \in 0..7}
    \cup {CrRange(a, b, step) : a \in 0..7, b \in 0..7, step \in 0..CrMaxStep}

CrListTokens == {CrSingle(0), CrSingle(3), CrSingle(7), CrRange(1, 5, 0), CrRange(6, 7, 0)}

CrLists == UNION {[1..n -> CrListTokens] : n \in 2..CrMaxList}

CrFields ==
    {CrAlpha, CrNumeric(<<>>)}
    \cup {CrNumeric(<<t>>) : t \in CrTokens}
    \cup {CrNumeric(tokens) : tokens \in CrLists}

CrNoDays == [error |-> FALSE, days |-> {}]

CrIdle ==
    /\ crField = CrNumeric(<<CrStar(0)>>)
    /\ crNormalized = CrNumeric(<<>>)
    /\ crPreview = CrNoDays
    /\ crFires = CrNoDays
    /\ crCalled = {}

CrInit ==
    /\ crField \in CrFields
    /\ crNormalized = CrNumeric(<<>>)
    /\ crPreview = CrNoDays
    /\ crFires = CrNoDays
    /\ crCalled = {}

\* normalize_cron_day_of_week_field(field)
NormalizeField ==
    /\ "normalize" \notin crCalled
    /\ crNormalized' = NormalizeCronDayOfWeekField(crField)
    /\ crCalled' = crCalled \cup {"normalize"}
    /\ UNCHANGED <<crField, crPreview, crFires>>
    /\ UNCHANGED notCr

\* preview_schedule("0 9 * * <field>")
PreviewScheduleCall ==
    /\ "preview" \notin crCalled
    /\ crPreview' = PreviewSchedule(crField)
    /\ crCalled' = crCalled \cup {"preview"}
    /\ UNCHANGED <<crField, crNormalized, crFires>>
    /\ UNCHANGED notCr

\* AgentScheduler.register(agent, "0 9 * * <field>")
Register ==
    /\ "register" \notin crCalled
    /\ crFires' = RegisterTrigger(crField)
    /\ crCalled' = crCalled \cup {"register"}
    /\ UNCHANGED <<crField, crNormalized, crPreview>>
    /\ UNCHANGED notCr

CrNext == NormalizeField \/ PreviewScheduleCall \/ Register

\* ------------------------------------------------------------------------
\* Claims about cron expressions
\* ------------------------------------------------------------------------
\* The weekdays a numeric POSIX field denotes: each token lists its numbers
\* 0..7, where 0 and 7 are Sunday and 1 is Monday.
CrPosixWeekdays(field) ==
    LET Numbers(t) ==
            LET step == IF t.step = 0 THEN 1 ELSE t.step
                first == IF t.base = "*" THEN 0 ELSE t.a
                last == IF t.base = "*" THEN 7 ELSE t.b
            IN  {n \in first..last : (n - first) % step = 0}
    IN  {(n + 6) % 7 : n \in UNION {Numbers(field.tokens[i]) : i \in DOMAIN field.tokens}}

\* A numeric POSIX field: a non-empty list of tokens whose ranges run
\* forwards.
CrIsPosix(field) ==
    /\ ~field.alpha
    /\ field.tokens # <<>>
    /\ \A i \in DOMAIN field.tokens : field.tokens[i].a <= field.tokens[i].b

CrFrom7(field) ==
    \E i \in DOMAIN field.tokens : field.tokens[i].base = "a-b" /\ field.tokens[i].a = 7

CrDenotes(field, days) == CronTriggerDays(field) = [error |-> FALSE, days |-> days]

\* C18: normalize_cron_day_of_week_field maps every numeric POSIX
\* day_of_week field to an APScheduler field that denotes the same set of
\* weekdays, and returns a field with weekday names unchanged.
C18_NormalizeKeepsWeekdays ==
    "normalize" \in crCalled =>
        /\ CrIsPosix(crField) => CrDenotes(crNormalized, CrPosixWeekdays(crField))
        /\ crField.alpha => crNormalized = crField

\* The same holds of every field but those with a range that starts at 7.
CrNormalizeKeepsWeekdaysUnlessFrom7 ==
    "normalize" \in crCalled /\ ~crField.alpha /\ ~CrFrom7(crField) =>
        (CrIsPosix(crField) => CrDenotes(crNormalized, CrPosixWeekdays(crField)))

\* C19: for a cron expression with a numeric day_of_week field, the
\* weekdays of the runs preview_schedule reports are the weekdays on which
\* the job registered through AgentScheduler.register fires.
C19_PreviewMatchesRegisteredJob ==
    {"preview", "register"} \subseteq crCalled /\ CrIsPosix(crField) => crPreview = crFires

\* Both agree on the fields that denote every day of the week.
CrPreviewMatchesOnEveryDay ==
    /\ {"preview", "register"} \subseteq crCalled /\ CrIsPosix(crField)
    /\ CrPosixWeekdays(crField) = 0..6
    /\ ~crFires.error
    => crPreview = crFires


\* ------------------------------------------------------------------------
\* The refresh endpoints: web/api/recommendations.py
\* ------------------------------------------------------------------------
\* The endpoints are plain functions, so the server runs each request on a
\* thread of its pool; the background worker is a thread of its own.
MaxRequests == 3

Requests == 1..MaxRequests

\* snapshot dates a request can ask for; RfToday is date.today()
RfDates == {1, 2}

RfToday == 2

NeverRunning(state) == FALSE

\* _start_refresh_job: if _refresh_state.get("running")
RefreshRunning(state) == state.running

RfNoRequest == [entry |-> "none", date |-> 0, pc |-> "idle", accepted |-> "n/a", failed |-> FALSE]

RfIdle ==
    /\ rfState = [running |-> FALSE, last_error |-> FALSE]
    /\ rfReq = [r \in Requests |-> RfNoRequest]

\* The request runs refresh_entry_candidates / refresh_strategy_signals.
RfExecuting(r) == rfReq[r].pc = "refreshing"

\* The request's worker thread exists: started, or inside _refresh_worker.
RfWorkerInFlight(r) == rfReq[r].entry = "background" /\ rfReq[r].pc \in {"started", "refreshing"}

\* POST /strategy-signals/refresh?wait=true: refresh_strategy_signals on the
\* request's thread.
RefreshStrategySignalListWait(r, date) ==
    /\ rfReq[r].pc = "idle"
    /\ rfReq' = [rfReq EXCEPT ![r] = [entry |-> "wait", date |-> date, pc |-> "refreshing",
                                      accepted |-> "n/a", failed |-> FALSE]]
    /\ UNCHANGED rfState
    /\ UNCHANGED notRf

\* POST /strategy-signals/refresh: _start_refresh_job tests and sets running
\* under the lock, starts the thread, and the response carries accepted.
RefreshStrategySignalList(r, date) ==
    /\ rfReq[r].pc = "idle"
    /\ IF RefreshRunning(rfState)
       THEN /\ rfReq' = [rfReq EXCEPT ![r] = [entry |-> "background", date |-> date, pc |-> "done",
                                              accepted |-> "no", failed |-> FALSE]]
            /\ UNCHANGED rfState
       ELSE /\ rfState' = [running |-> TRUE, last_error |-> FALSE]
            /\ rfReq' = [rfReq EXCEPT ![r] = [entry |-> "background", date |-> date, pc |-> "started",
                                              accepted |-> "yes", failed |-> FALSE]]
    /\ UNCHANGED notRf

\* _refresh_worker, up to the call of refresh_strategy_signals
RefreshWorker(r) ==
    /\ rfReq[r].entry = "background" /\ rfReq[r].pc = "started"
    /\ rfState' = [running |-> TRUE, last_error |-> FALSE]
    /\ rfReq' = [rfReq EXCEPT ![r].pc = "refreshing"]
    /\ UNCHANGED notRf

\* _refresh_worker, after refresh_strategy_signals has returned or raised
RefreshWorkerEnd(r, failed) ==
    /\ rfReq[r].entry = "background" /\ rfReq[r].pc = "refreshing"
    /\ rfState' = [running |-> FALSE, last_error |-> failed]
    /\ rfReq' = [rfReq EXCEPT ![r].pc = "done", ![r].failed = failed]
    /\ UNCHANGED notRf

\* POST /entry-candidates/refresh: refresh_entry_candidates, then
\* refresh_strategy_signals of its snapshot
RefreshCandidates(r) ==
    /\ rfReq[r].pc = "idle"
    /\ rfReq' = [rfReq EXCEPT ![r] = [entry |-> "candidates_refresh", date |-> RfToday,
                                      pc |-> "refreshing", accepted |-> "n/a", failed |-> FALSE]]
    /\ UNCHANGED rfState
    /\ UNCHANGED notRf

\* GET /entry-candidates: if refresh: refresh_entry_candidates()
GetEntryCandidates(r, refresh) ==
    /\ rfReq[r].pc = "idle"
    /\ rfReq' = [rfReq EXCEPT ![r] = [entry |-> "listing", date |-> RfToday,
                                      pc |-> IF refresh THEN "refreshing" ELSE "done",
                                      accepted |-> "n/a", failed |-> FALSE]]
    /\ UNCHANGED rfState
    /\ UNCHANGED notRf

\* The refresh on a request's own thread returns or raises.
RefreshReturn(r, failed) ==
    /\ rfReq[r].entry \in {"wait", "candidates_refresh", "listing"} /\ rfReq[r].pc = "refreshing"
    /\ rfReq' = [rfReq EXCEPT ![r].pc = "done", ![r].failed = failed]
    /\ UNCHANGED rfState
    /\ UNCHANGED notRf

RfNext ==
    \E r \in Requests :
        \/ \E date \in RfDates : RefreshStrategySignalListWait(r, date)
        \/ \E date \in RfDates : RefreshStrategySignalList(r, date)
        \/ RefreshWorker(r)
        \/ \E failed \in BOOLEAN : RefreshWorkerEnd(r, failed)
        \/ RefreshCandidates(r)
        \/ \E refresh \in BOOLEAN : GetEntryCandidates(r, refresh)
        \/ \E failed \in BOOLEAN : RefreshReturn(r, failed)

\* ------------------------------------------------------------------------
\* Claims about the refresh endpoints
\* ------------------------------------------------------------------------
RfWorkers == {r \in Requests : RfWorkerInFlight(r)}

\* Request r is answered by the background endpoint in this step.
RfAnswered(r) == rfReq[r].pc = "idle" /\ rfReq'[r].entry = "background"

\* The worker of request r finishes in this step.
RfWorkerFinishes(r) == RfWorkerInFlight(r) /\ rfReq'[r].pc = "done"

\* C14: at most one background refresh worker is in flight; a request that
\* arrives while running is true starts no worker and is answered
\* accepted=false; when the worker finishes, with or without an exception,
\* running is false, and a request that arrives while running is false is
\* accepted.
C14_OneBackgroundRefresh ==
    [][/\ Cardinality(RfWorkers') <= 1
       /\ \A r \in Requests :
            /\ RfAnswered(r) /\ rfState.running =>
                   rfReq'[r].accepted = "no" /\ ~RfWorkerInFlight(r)' /\ RfWorkers' = RfWorkers
            /\ RfAnswered(r) /\ ~rfState.running =>
                   rfReq'[r].accepted = "yes" /\ RfWorkers' = {r}
            /\ RfWorkerFinishes(r) => ~rfState'.running /\ RfWorkers' = {}]_vars

\* A request was rejected while a worker ran, and a later one was accepted
\* after a worker had failed.
C14_Witness ==
    \E r1, r2, r3 \in Requests :
        /\ rfReq[r1].entry = "background" /\ rfReq[r1].pc = "done" /\ rfReq[r1].failed
        /\ rfReq[r2].accepted = "no"
        /\ rfReq[r3].accepted = "yes" /\ r3 # r1 /\ RfWorkerInFlight(r3)

\* C15: no two executions of refresh_entry_candidates /
\* refresh_strategy_signals for the same snapshot_date overlap, whichever
\* entry point started them.
C15_NoOverlappingRefresh ==
    \A r1, r2 \in Requests :
        r1 # r2 /\ RfExecuting(r1) /\ RfExecuting(r2) => rfReq[r1].date # rfReq[r2].date

\* Two background workers never overlap.
RfNoOverlappingWorkers ==
    \A r1, r2 \in Requests :
        r1 # r2 /\ RfWorkerInFlight(r1) /\ RfWorkerInFlight(r2) => FALSE


\* ------------------------------------------------------------------------
\* The outcome of one row: entry_candidates.py, strategy_engine.py
\* ------------------------------------------------------------------------
\* Prices of the example; 0 is a price that is not set (None).
ClPrices == {90, 100, 110, 112}

ClLevels == {0, 90, 110, 112}

ClBases == {0, 100, 110}

ClInputs ==
    [base_price : ClBases, outcome_price : ClPrices, target_price : ClLevels, stop_loss : ClLevels]

ClNone == [called |-> FALSE, status |-> "", return_pct |-> 0]

ClIdle ==
    /\ clInput = [base_price |-> 0, outcome_price |-> 100, target_price |-> 0, stop_loss |-> 0]
    /\ clCandidate = ClNone
    /\ clSignal = ClNone

ClInit ==
    /\ clInput \in ClInputs
    /\ clCandidate = ClNone
    /\ clSignal = ClNone

\* evaluate_entry_candidate_outcomes, one candidate and horizon: ret, status
EvaluateCandidateRow ==
    /\ ~clCandidate.called
    /\ clCandidate' = [called |-> TRUE,
                       status |-> OutcomeStatus(clInput, clInput.base_price, clInput.outcome_price),
                       return_pct |-> OutcomeReturnPct(clInput.base_price, clInput.outcome_price)]
    /\ UNCHANGED <<clInput, clSignal>>
    /\ UNCHANGED notCl

\* evaluate_strategy_outcomes, one signal and horizon: ret, status
EvaluateSignalRow ==
    /\ ~clSignal.called
    /\ clSignal' = [called |-> TRUE,
                    status |-> StrategyOutcomeStatus(clInput, clInput.base_price,
                                                     clInput.outcome_price),
                    return_pct |-> OutcomeReturnPct(clInput.base_price, clInput.outcome_price)]
    /\ UNCHANGED <<clInput, clCandidate>>
    /\ UNCHANGED notCl

ClNext == EvaluateCandidateRow \/ EvaluateSignalRow

\* ------------------------------------------------------------------------
\* Claims about the outcome of one row
\* ------------------------------------------------------------------------
ClHitsTarget == clInput.target_price # 0 /\ clInput.outcome_price >= clInput.target_price

ClHitsStop == clInput.stop_loss # 0 /\ clInput.outcome_price <= clInput.stop_loss

\* out is classified and its return computed as the contract says; the
\* return is the whole percents of (outcome - base) / base * 100.
ClAsSpecified(out) ==
    /\ out.status = IF ClHitsTarget THEN "hit_target"
                    ELSE IF ClHitsStop THEN "hit_stop" ELSE "evaluated"
    /\ out.return_pct * clInput.base_price <= (clInput.outcome_price - clInput.base_price) * 100
    /\ (clInput.outcome_price - clInput.base_price) * 100 < (out.return_pct + 1) * clInput.base_price

\* C20: when a base price resolves, an outcome is hit_target if
\* outcome_price >= target_price, otherwise hit_stop if outcome_price <=
\* stop_loss, otherwise evaluated, so hit_target when both hold; return_pct
\* is (outcome_price - base_price) / base_price * 100; candidate outcomes
\* and signal outcomes classify identically.
C20_OutcomeClassification ==
    /\ clCandidate.called /\ clInput.base_price > 0 => ClAsSpecified(clCandidate)
    /\ clSignal.called /\ clInput.base_price > 0 => ClAsSpecified(clSignal)
    /\ clCandidate.called /\ clSignal.called => clCandidate = clSignal

\* The example (base 100, target 110, close 112, hit_target, 12) with a
\* stop that the close is under as well, evaluated by both.
C20_Witness ==
    /\ clInput = [base_price |-> 100, outcome_price |-> 112, target_price |-> 110, stop_loss |-> 112]
    /\ clCandidate = [called |-> TRUE, status |-> "hit_target", return_pct |-> 12]
    /\ clSignal = clCandidate

\* ------------------------------------------------------------------------
\* Claims about repeated rebalance runs
\* ------------------------------------------------------------------------
\* The weight the next run reads for a pair: the stored one, else the default.
SwWeightOf(rows, t) ==
    IF SwStored(rows, t) # 0 THEN SwStored(rows, t) ELSE DefaultWeight(t.code)

\* The clamped target of a pair under the statistics agg, in 1/100000.
SwTargetOf(agg, t) ==
    TargetWeight(DefaultWeight(t.code), AggregateRecentOutcomes(agg, t.code, t.market))

\* A run moves the weight of no pair away from its target or beyond it.
SwTowardTarget ==
    swLast'.calls # swLast.calls =>
        \A k \in DOMAIN RebalanceTargets :
            LET t == RebalanceTargets[k]
                old_weight == SwWeightOf(swRows, t)
                new_weight == SwWeightOf(swRows', t)
                target == SwTargetOf(swLast'.agg, t)
            IN  IF old_weight * 10 <= target
                THEN old_weight <= new_weight /\ new_weight * 10 <= target
                ELSE new_weight <= old_weight /\ target <= new_weight * 10

\* The last run has committed and has left every pair as it was.
SwSettled ==
    /\ swLast.calls > 0
    /\ ~swLast.result.error
    /\ \A k \in DOMAIN RebalanceTargets : ~SwTouched(RebalanceTargets[k])

\* Once settled, a further run changes no weight and appends no history row.
SwSettledStays == SwSettled => swRows' = swRows /\ swHistory' = swHistory

\* By the last of MaxRepeats runs the weights have settled.
SwSettledInTime == swLast.calls = MaxRepeats => SwSettled

\* C29: while the outcome statistics, default_weight and alpha stay the same,
\* every rebalance run moves the weight of a (strategy_code, market) pair
\* toward its clamped target and never beyond it, and after finitely many
\* runs (MaxRepeats at most, for the arguments and statistics of SwCalls and
\* SwAggs) the weights are such that every further run applies no change and
\* appends no history row.
C29_SettlesAtTarget ==
    /\ [][SwTowardTarget]_vars
    /\ [][SwSettledStays]_vars
    /\ []SwSettledInTime

\* A weight has moved in three runs or more, has stopped short of its target
\* and a further run has left it there.
C29_Witness ==
    /\ SwSettled
    /\ \E k \in DOMAIN RebalanceTargets :
           LET t == RebalanceTargets[k]
           IN  /\ Cardinality({i \in DOMAIN swHistory :
                                  /\ swHistory[i].strategy_code = t.code
                                  /\ swHistory[i].market = t.market}) >= 3
               /\ SwWeightOf(swRows, t) * 10 # SwTargetOf(swLast.agg, t)

\* ------------------------------------------------------------------------
\* Claims about the candidate a signal refers to
\* ------------------------------------------------------------------------
\* The Signal row r refers to a Candidate of the table cands.
SgRefersTo(r, cands) == \E c \in cands : c.id = r.source_candidate_id

\* The Signal row r carries the symbol and the market of the Candidate with
\* its source_candidate_id.
SgCarriesCandidate(r, cands) ==
    \E c \in cands :
        /\ c.id = r.source_candidate_id
        /\ c.snapshot_date = r.snapshot_date
        /\ c.stock_symbol = r.stock_symbol
        /\ NormMarket(c.stock_market) = r.stock_market

\* C25: when refresh_strategy_signals has completed for a snapshot date,
\* every Signal row of the date carries the symbol and market of the
\* Candidate its source_candidate_id identifies, and none refers to a
\* Candidate that a candidate refresh has removed, whatever candidate and
\* signal refreshes came before and also when a new Candidate has been given
\* the id of a deleted one.
C25_SignalsCarryTheirCandidate ==
    [][\A d \in SnapshotDates :
         SgCompletedFor(d) =>
             \A r \in SgRowsOf(sgRows', d) : SgCarriesCandidate(r, ecRows')]_vars

\* After a completed refresh no Signal row of the date is left without a
\* Candidate of the date under its source_candidate_id.
SgNoDanglingSignal ==
    [][\A d \in SnapshotDates :
         SgCompletedFor(d) =>
             \A r \in SgRowsOf(sgRows', d) :
                 SgRefersTo(r, SgCandidatesOf(ecRows', d))]_vars

\* ------------------------------------------------------------------------
\* Claims about the weight a signal is scored with
\* ------------------------------------------------------------------------
\* The signal rows a step writes: the new rows and the rows it has changed.
SgWritten == IF sgCalls' # sgCalls THEN sgRows' \ sgRows ELSE {}

\* The market of the candidate a written row was scored for.
SgScoredMarket(r) ==
    NormMarket((CHOOSE c \in ecRows' : c.id = r.source_candidate_id).stock_market)

\* C24: the weight applied when a signal of strategy S is scored in market M
\* is the weight stored for (S, M), else the weight stored for (S, "ALL"),
\* else the catalog default_weight: the precedence get_strategy_stats uses for
\* current_weight.  So a weight stored for (S, "ALL") takes effect in every
\* market that has no row of its own.
C24_WeightPrecedence ==
    [][\A r \in SgWritten :
           r.strategy_weight = CurrentWeight(r.strategy_code, SgScoredMarket(r))]_vars

\* What the refresh applies: the weight stored for (S, M), else the catalog
\* default_weight, whatever is stored for (S, "ALL").
SgMarketWeightElseDefault ==
    [][\A r \in SgWritten :
           r.strategy_weight =
               IF \E w \in swRows : w.strategy_code = r.strategy_code
                                    /\ w.market = SgScoredMarket(r)
               THEN CurrentWeight(r.strategy_code, SgScoredMarket(r))
               ELSE DefaultWeight(r.strategy_code)]_vars

\* A signal has been scored in a market for which its strategy has a stored
\* weight that differs from the default.
SgScoredWithStoredWeight ==
    \E r \in sgRows : r.strategy_weight # DefaultWeight(r.strategy_code)

\* ------------------------------------------------------------------------
\* Specifications.  Each one runs one subsystem; the others stay idle.
\* ------------------------------------------------------------------------
CoreIdle == PcIdle /\ EcIdle /\ SwIdle /\ SgIdle /\ OcIdle /\ AlIdle

SvcIdle == JbIdle /\ CrIdle /\ RfIdle /\ ClIdle

PcNext == PcApply

InitPortfolio == PcInit /\ EcIdle /\ SwIdle /\ SgIdle /\ OcIdle /\ AlIdle /\ SvcIdle

SpecPortfolio == InitPortfolio /\ [][PcNext]_vars

InitCandidates == PcIdle /\ EcIdle /\ SwIdle /\ SgIdle /\ OcIdle /\ AlIdle /\ SvcIdle

SpecCandidates == InitCandidates /\ [][EcNext]_vars

InitOutcomes == PcIdle /\ SwIdle /\ OcInit /\ AlIdle /\ SvcIdle

SpecOutcomes == InitOutcomes /\ [][OcNext]_vars

InitWeights == PcIdle /\ EcIdle /\ SwIdle /\ SgIdle /\ OcIdle /\ AlIdle /\ SvcIdle

SpecWeights == InitWeights /\ [][SwNext]_vars

InitAlerts == PcIdle /\ EcIdle /\ SwIdle /\ SgIdle /\ OcIdle /\ AlInit(AlConfigs) /\ SvcIdle

SpecAlerts == InitAlerts /\ [][AlNext]_vars

InitAlertsConcurrent == PcIdle /\ EcIdle /\ SwIdle /\ SgIdle /\ OcIdle /\ AlInit(AlConcurrentConfigs) /\ SvcIdle

SpecAlertsConcurrent == InitAlertsConcurrent /\ [][AlConcurrentNext]_vars

InitJobs == CoreIdle /\ JbIdle /\ CrIdle /\ RfIdle /\ ClIdle

SpecJobs == InitJobs /\ [][JbNext]_vars

InitCron == CoreIdle /\ JbIdle /\ CrInit /\ RfIdle /\ ClIdle

SpecCron == InitCron /\ [][CrNext]_vars

InitRefresh == CoreIdle /\ JbIdle /\ CrIdle /\ RfIdle /\ ClIdle

SpecRefresh == InitRefresh /\ [][RfNext]_vars

InitClassify == CoreIdle /\ JbIdle /\ CrIdle /\ RfIdle /\ ClInit

SpecClassify == InitClassify /\ [][ClNext]_vars

InitAlertsCooldown == PcIdle /\ EcIdle /\ SwIdle /\ SgIdle /\ OcIdle /\ AlInit(AlCooldownConfigs) /\ SvcIdle

SpecAlertsCooldown == InitAlertsCooldown /\ [][AlConcurrentNext]_vars

\* The rebalance job and the refreshes, in any order, MaxCalls of them in all.
ScBudget == swLast.calls + ecCalls + sgCalls < MaxCalls

ScRebalance == ScBudget /\ SwRebalance

ScEcRefresh == ScBudget /\ EcRefresh

ScSgRefresh == ScBudget /\ SgRefresh

ScNext == ScRebalance \/ ScEcRefresh \/ ScSgRefresh

InitScoring == PcIdle /\ EcIdle /\ SwIdle /\ SgIdle /\ OcIdle /\ AlIdle /\ SvcIdle

SpecScoring == InitScoring /\ [][ScNext]_vars

SpecSteady == InitWeights /\ [][SwSteadyNext]_vars

====
